---- MODULE Spec2Model ----
(***************************************************************************)
(* A model of the Gravity object runtime core (gravity_core.c): the fiber  *)
(* scheduler, dynamic bind/unbind on the class registry, and the lazy      *)
(* meta-class initialisation performed by the load/store primitives.       *)
(***************************************************************************)
EXTENDS Integers, Sequences, FiniteSets, TLC

(***************************************************************************)
(* Bounds of the model.                                                    *)
(***************************************************************************)
\* number of fibers Fiber.create can allocate (the main fiber is extra)
NFibers == 1
\* how many registers of the core are outstanding at most, how often the
\* core classes are created at most, and how far the count goes below zero
MaxCore == 3
\* the same number where only the chain of callers is followed
MaxChain == 2
\* last value of the clock read by nanotime()
MaxTime == 1
\* largest delay passed to Fiber.yieldWaitTime
MaxWait == 1
\* how many instances the program allocates
MaxInst == 1
\* how many anonymous classes the program gets
MaxAnon == 1
\* how many clones of struct instances the stores of the program make
MaxClone == 1
MaxArgs == 3
\* number of lists a script creates, and the length of a list literal
MaxList == 1
MaxLen == 3
\* number of calls of its closure a loop native is followed for
MaxCalls == 4

(***************************************************************************)
(* Program constants: the fiber status codes (enum gravity_fiber_status,   *)
(* listed in the comment of fiber_status).                                 *)
(***************************************************************************)
FIBER_NEVER_EXECUTED == 0
FIBER_ABORTED_WITH_ERROR == 1
FIBER_TERMINATED == 2
FIBER_RUNNING == 3
FIBER_TRYING == 4

VARIABLES
    fiber,      \* fiber[f]: the fields of gravity_fiber_t f
    created,    \* the fibers allocated so far
    vmfiber,    \* gravity_vm_fiber(vm): the currently executing fiber
    vmstate,    \* "run", "error" (a native returned an error), "aborted", "done"
    now,        \* the clock read by nanotime()
    hist,       \* history: the last lifecycle transition of each fiber
    last,       \* history: the last operation executed and how it returned
    classes,    \* classes[c]: the fields of gravity_class_t c
    instance,   \* instance[i]: the fields of gravity_instance_t i
    context,    \* context[cl]: closure->context of closure cl
    nanon,      \* the number of anonymous classes gravity_vm_anonymous named
    cstack,     \* the natives suspended in gravity_vm_runclosure
    starts,     \* history: how often the static initializer was started for a class
    gcenabled,  \* the flag set by gravity_gc_setenabled
    list,       \* list[l]: the array of gravity_list_t l
    loop,       \* the loop native in progress, and the calls it has made
    core        \* core_inited, refcount and the core classes of the process

vars == <<fiber, created, vmfiber, vmstate, now, hist, last,
          classes, instance, context, nanon, cstack, starts, gcenabled,
          list, loop, core>>
\* the state of the scheduler that no object native writes
fibervars == <<created, vmfiber, now, hist>>
\* the state of the class registry that no fiber native writes
objvars == <<classes, instance, context, nanon, cstack, starts, gcenabled>>
\* the lists and the loop in progress, written by the natives of List and Range
heapvars == <<list, loop, core>>

\* the main fiber of the VM, and the fibers of Fiber.create
MainFiber == 0
Fibers == 0..(IF NFibers > MaxChain THEN NFibers ELSE MaxChain)
\* a NULL gravity_fiber_t pointer
NULL == 0 - 1
\* fiber->error == NULL; a recorded error is <<message>>
NoError == <<>>

Messages == {"x"}
\* the argument values a script can pass: [kind, n, s]
\* an Int of 64 bits is kept as two limbs of 32 bits: n the low one, hi the
\* high one; the values with hi = 0 are the non-negative Ints below 2^32
WideIntArg(hi, lo) == [kind |-> "Int", n |-> lo, s |-> "", hi |-> hi]
IntArg(n) == [kind |-> "Int", n |-> n, s |-> "", hi |-> 0]
FloatArg(n) == [kind |-> "Float", n |-> n, s |-> "", hi |-> 0]
StringArg(s) == [kind |-> "String", n |-> 0, s |-> s, hi |-> 0]
NullArg == [kind |-> "Null", n |-> 0, s |-> "", hi |-> 0]
\* GravityValue::from_undefined(): the Null class with n = 1
UndefinedArg == [kind |-> "Null", n |-> 1, s |-> "", hi |-> 0]
BoolArg(b) == [kind |-> "Bool", n |-> IF b THEN 1 ELSE 0, s |-> "", hi |-> 0]
\* VALUE_FROM_ERROR(NULL): the value without a class
ErrorValue == [kind |-> "Error", n |-> 0, s |-> "", hi |-> 0]
ClosureArg == [kind |-> "Closure", n |-> 0, s |-> "", hi |-> 0]
WaitArgs == {IntArg(n) : n \in 0..MaxWait} \cup {FloatArg(n) : n \in 1..MaxWait}
               \cup {NullArg}
AbortArgs == {StringArg(m) : m \in Messages} \cup {NullArg}

\* gravity_fiber_new(vm, closure, 0, 0): a fiber that never ran. The field
\* elapsedtime, written by fiber_run and read only by Fiber.elapsedTime, is
\* the value now - lasttime that fiber_run computes; it is not stored here.
gravity_fiber_new ==
    [caller |-> NULL, status |-> FIBER_NEVER_EXECUTED, trying |-> FALSE,
     timewait |-> 0, lasttime |-> 0,
     error |-> NoError, nframes |-> 1]

\* history: what a fiber did last (ev), who resumed it last (by), and the
\* delay (d) and the time (at) of its last yield (d = -1: no numeric delay);
\* by is kept while the fiber runs, d and at while it is suspended by a yield
NoHist == [ev |-> "new", by |-> NULL, d |-> 0, at |-> 0]
Note(f, ev) == hist' = [hist EXCEPT ![f] = [NoHist EXCEPT !.ev = ev]]

\* history of an object native: receiver, key, closure involved, the member
\* the original class chain gave for the key, a flag, the value returned
\* (or stored) and the key as the Value that was passed
\* no loop native is in progress
\* history of an iteration with the iterator of a range: the range, the
\* cursor the iterator gave last, whether its value was taken, the values
\* taken so far and whether the iterator has answered false
NoIter == [range |-> <<>>, cursor |-> [kind |-> "Null", n |-> 0, s |-> "", hi |-> 0],
           taken |-> FALSE, seq |-> <<>>, done |-> FALSE]
NoLoop == [active |-> FALSE, forward |-> FALSE, from |-> <<>>, to |-> <<>>,
           i |-> <<>>, closure |-> "", t1 |-> 0, calls |-> <<>>, iter |-> NoIter]
NoValue == [kind |-> "Null", n |-> 0, s |-> "", hi |-> 0]
NoExtra == [recv |-> NoValue, key |-> "", clo |-> "", pre |-> "", flag |-> FALSE,
            ret |-> NoValue, k |-> NoValue, win |-> <<>>, nargs |-> 0,
            args |-> <<>>, cur |-> ""]
Done(op, f, res) ==
    /\ last' = [op |-> op, f |-> f, res |-> res, msg |-> "", x |-> NoExtra]
    /\ UNCHANGED heapvars
DoneMsg(op, f, res, msg) ==
    /\ last' = [op |-> op, f |-> f, res |-> res, msg |-> msg, x |-> NoExtra]
    /\ UNCHANGED heapvars
DoneObj(op, res, x) ==
    /\ last' = [op |-> op, f |-> 0 - 1, res |-> res, msg |-> "", x |-> x]
    /\ UNCHANGED heapvars

\* refcount is a uint32: two limbs of 16 bits, the most significant first
Count32(n) == <<n \div 65536, n % 65536>>
Inc32(a) == IF a[2] = 65535 THEN <<(a[1] + 1) % 65536, 0>> ELSE <<a[1], a[2] + 1>>
Dec32(a) == IF a[2] = 0 THEN <<(a[1] + 65535) % 65536, 65535>> ELSE <<a[1], a[2] - 1>>

\* the statics of the core before the first call: core_inited false,
\* refcount 0, the pointers of GravityEnv NULL.  History: outstanding, the
\* registers not yet balanced by a free; made, how often the core classes
\* were created; vms, the virtual machines that hold the core classes as
\* globals
NoCore == [inited |-> FALSE, refcount |-> Count32(0), env |-> "NULL",
           outstanding |-> 0, made |-> 0, vms |-> {}]
\* the core after one virtual machine registered it
OneVm == [inited |-> TRUE, refcount |-> Count32(1), env |-> "valid",
          outstanding |-> 1, made |-> 1, vms |-> {"vm"}]

\* the running fiber is executing bytecode and can call a native
CanExec ==
    /\ vmstate = "run"
    /\ fiber[vmfiber].nframes > 0
    /\ fiber[vmfiber].error = NoError

\* RETURN_ERROR(msg): record the error on the running fiber, return false
RETURN_ERROR(msg) ==
    /\ fiber' = [fiber EXCEPT ![vmfiber].error = <<msg>>]
    /\ vmstate' = "error"

(***************************************************************************)
(* Fiber class                                                             *)
(***************************************************************************)
\* pool: the fibers the allocator can still give out
fiber_create_in(pool, arg) ==
    /\ CanExec
    /\ IF arg.kind # "Closure"
         THEN /\ RETURN_ERROR("A function is expected as argument to Fiber.create.")
              /\ UNCHANGED <<created, hist>>
              /\ Done("create", NULL, "error")
         ELSE /\ pool \ created # {}
              /\ LET f == CHOOSE g \in pool \ created :
                              \A h \in pool \ created : g <= h
                 IN /\ created' = created \cup {f}
                    /\ fiber' = [fiber EXCEPT ![f] = gravity_fiber_new]
                    /\ hist' = [hist EXCEPT ![f] = NoHist]
                    /\ Done("create", f, "value")
              /\ UNCHANGED vmstate
    /\ UNCHANGED <<vmfiber, now>>
    /\ UNCHANGED objvars

fiber_create(arg) == fiber_create_in(0..NFibers, arg)

\* the caller check left out
fiber_has_caller_unchecked(f) == FALSE

\* line 2861: the fiber is already owned by a caller
fiber_has_caller(f) == fiber[f].caller # NULL

\* the wait compared with <= instead of <
fiber_must_wait_inclusive(f, elapsed) ==
    /\ fiber[f].timewait > 0
    /\ elapsed <= fiber[f].timewait

\* lines 2864-2868: the minimum wait asked by yieldWaitTime has not elapsed
fiber_must_wait(f, elapsed) ==
    /\ fiber[f].timewait > 0
    /\ elapsed < fiber[f].timewait

\* the resumed fiber recorded as its own caller, the trying mode not recorded
fiber_run_wrong_owner(f, is_trying) ==
    /\ CanExec
    /\ f \in created
    /\ LET op == IF is_trying THEN "try" ELSE "call"
           elapsed == now - fiber[f].lasttime
       IN IF fiber_has_caller(f)
            THEN /\ RETURN_ERROR("Fiber has already been called.")
                 /\ UNCHANGED <<vmfiber, hist>>
                 /\ Done(op, f, "error")
            ELSE IF fiber_must_wait(f, elapsed)
              THEN /\ UNCHANGED <<fiber, vmfiber, vmstate, hist>>
                   /\ Done(op, f, "novalue")
              ELSE /\ fiber' = [fiber EXCEPT ![f].caller = f,
                                             ![f].status = FIBER_RUNNING]
                   /\ vmfiber' = f
                   /\ hist' = [hist EXCEPT ![f] = [NoHist EXCEPT !.ev = "resumed", !.by = vmfiber]]
                   /\ UNCHANGED vmstate
                   /\ Done(op, f, "fiber")
    /\ UNCHANGED <<created, now>>
    /\ UNCHANGED objvars

fiber_run(f, is_trying) ==
    /\ CanExec
    /\ f \in created
    /\ LET op == IF is_trying THEN "try" ELSE "call"
           elapsed == now - fiber[f].lasttime
       IN IF fiber_has_caller(f)
            THEN /\ RETURN_ERROR("Fiber has already been called.")
                 /\ UNCHANGED <<vmfiber, hist>>
                 /\ Done(op, f, "error")
            ELSE IF fiber_must_wait(f, elapsed)
              THEN /\ UNCHANGED <<fiber, vmfiber, vmstate, hist>>
                   /\ Done(op, f, "novalue")
              ELSE /\ fiber' = [fiber EXCEPT ![f].caller = vmfiber,
                                             ![f].trying = is_trying,
                                             ![f].status = IF is_trying THEN FIBER_TRYING
                                                                        ELSE FIBER_RUNNING]
                   /\ vmfiber' = f
                   /\ hist' = [hist EXCEPT ![f] = [NoHist EXCEPT !.ev = "resumed", !.by = vmfiber]]
                   /\ UNCHANGED vmstate
                   /\ Done(op, f, "fiber")
    /\ UNCHANGED <<created, now>>
    /\ UNCHANGED objvars

fiber_exec(f) == fiber_run(f, FALSE)

fiber_try(f) == fiber_run(f, TRUE)

\* the yielding fiber left hooked to its caller
fiber_unhook_keeps_caller(f, timewait, op, d) ==
    IF fiber[f].caller # NULL
      THEN /\ vmfiber' = fiber[f].caller
           /\ fiber' = [fiber EXCEPT ![f].timewait = timewait,
                                     ![f].lasttime = now]
           /\ hist' = [hist EXCEPT ![f] = [NoHist EXCEPT !.ev = "yielded", !.d = d, !.at = now]]
           /\ Done(op, f, "fiber")
      ELSE /\ fiber' = [fiber EXCEPT ![f].timewait = timewait,
                                     ![f].lasttime = now]
           /\ UNCHANGED <<vmfiber, hist>>
           /\ Done(op, f, "novalue")

\* the trying flag of the yielding fiber left set
fiber_unhook_keeps_trying(f, timewait, op, d) ==
    IF fiber[f].caller # NULL
      THEN /\ vmfiber' = fiber[f].caller
           /\ fiber' = [fiber EXCEPT ![f].timewait = timewait,
                                     ![f].lasttime = now,
                                     ![f].caller = NULL]
           /\ hist' = [hist EXCEPT ![f] = [NoHist EXCEPT !.ev = "yielded", !.d = d, !.at = now]]
           /\ Done(op, f, "fiber")
      ELSE /\ fiber' = [fiber EXCEPT ![f].timewait = timewait,
                                     ![f].lasttime = now]
           /\ UNCHANGED <<vmfiber, hist>>
           /\ Done(op, f, "novalue")

\* lines 2900-2909 and 2930-2939: hand control back to the caller, if any
fiber_unhook(f, timewait, op, d) ==
    IF fiber[f].caller # NULL
      THEN /\ vmfiber' = fiber[f].caller
           /\ fiber' = [fiber EXCEPT ![f].timewait = timewait,
                                     ![f].lasttime = now,
                                     ![f].caller = NULL,
                                     ![f].trying = FALSE]
           /\ hist' = [hist EXCEPT ![f] = [NoHist EXCEPT !.ev = "yielded", !.d = d, !.at = now]]
           /\ Done(op, f, "fiber")
      ELSE /\ fiber' = [fiber EXCEPT ![f].timewait = timewait,
                                     ![f].lasttime = now]
           /\ UNCHANGED <<vmfiber, hist>>
           /\ Done(op, f, "novalue")

fiber_yield ==
    /\ CanExec
    /\ fiber_unhook(vmfiber, 0, "yield", 0)
    /\ UNCHANGED <<created, vmstate, now>>
    /\ UNCHANGED objvars

fiber_yield_time(arg) ==
    /\ CanExec
    /\ LET f == vmfiber
           timewait == IF arg.kind \in {"Float", "Int"} THEN arg.n
                                                        ELSE fiber[f].timewait
           d == IF arg.kind \in {"Float", "Int"} THEN arg.n ELSE 0 - 1
       IN fiber_unhook(f, timewait, "yieldWaitTime", d)
    /\ UNCHANGED <<created, vmstate, now>>
    /\ UNCHANGED objvars

fiber_done(f) == fiber[f].nframes = 0 \/ fiber[f].error # NoError

\* the status field reported without looking at the error
fiber_status_field_only(f) ==
    IF fiber[f].nframes = 0 THEN FIBER_TERMINATED ELSE fiber[f].status

fiber_status(f) ==
    IF fiber[f].error # NoError THEN FIBER_ABORTED_WITH_ERROR
    ELSE IF fiber[f].nframes = 0 THEN FIBER_TERMINATED
    ELSE fiber[f].status

fiber_abort(arg) ==
    /\ CanExec
    /\ IF arg.kind # "String"
         THEN RETURN_ERROR("Fiber.abort expects a string as argument.")
         ELSE RETURN_ERROR(arg.s)
    /\ DoneMsg("abort", vmfiber, "error", IF arg.kind = "String" THEN arg.s ELSE "")
    /\ UNCHANGED <<created, vmfiber, now, hist>>
    /\ UNCHANGED objvars

(***************************************************************************)
(* The class registry: classes, instances, closures                        *)
(***************************************************************************)
\* a class is named by its identifier; meta tells a class from its metaclass
Cls(n) == [name |-> n, meta |-> FALSE]
Meta(n) == [name |-> n, meta |-> TRUE]
NoClass == Cls("")
\* the absent member (a NULL gravity_object_t pointer)
NoMember == ""

ClassValue(n) == [kind |-> "Class", n |-> 0, s |-> n, hi |-> 0]
InstanceValue(i) == [kind |-> "Instance", n |-> i, s |-> "", hi |-> 0]
ClosureValue(cl) == [kind |-> "Closure", n |-> 0, s |-> cl, hi |-> 0]

\* the names gravity_vm_anonymous hands out, in order
AnonNames == <<"anon1", "anon2", "anon3", "anon4">>

EmptyTable == [k \in {} |-> NoMember]
Table1(k1, v1) == [k \in {k1} |-> v1]
Table3(k1, v1, k2, v2, k3, v3) ==
    [k \in {k1, k2, k3} |-> IF k = k1 THEN v1 ELSE IF k = k2 THEN v2 ELSE v3]
NewClass(super, objclass, htable, inited, nivars) ==
    [superclass |-> super, objclass |-> objclass, htable |-> htable,
     is_inited |-> inited, nivars |-> nivars, ivars |-> [i \in 1..nivars |-> NoValue],
     is_struct |-> FALSE]

\* the classes gravity_core_init builds (Object, Class, Int, Closure and
\* their metaclasses, all marked as initialized) with the members the
\* operations below can reach
gravity_core_init ==
    (Cls("Object") :> NewClass(NoClass, Cls("Class"),
        Table3("notfound", "object_notfound", "bind", "object_bind",
               "exec", "object_exec")
          @@ Table3("Int", "convert_object_int", "Float", "convert_object_float",
                    "Bool", "convert_object_bool")
          @@ Table1("String", "convert_object_string"), TRUE, 0))
    @@ (Cls("Class") :> NewClass(Cls("Object"), Cls("Class"),
        Table1("exec", "class_exec"), TRUE, 0))
    @@ (Cls("Int") :> NewClass(Cls("Object"), Meta("Int"),
        Table1("loop", "int_loop"), TRUE, 0))
    @@ (Meta("Int") :> NewClass(Cls("Class"), Cls("Class"),
        Table1("exec", "int_exec"), TRUE, 0))
    @@ (Cls("Closure") :> NewClass(Cls("Object"), Meta("Closure"),
        Table1("bind", "closure_bind"), TRUE, 0))
    @@ (Meta("Closure") :> NewClass(Cls("Class"), Cls("Class"), EmptyTable, TRUE, 0))

\* the classes of the program under execution:
\*   class A { var p; var g { get {} }; static var s = 1;
\*             func m() {}; func init(a) {} }
\*   class B : A { }
\*   struct S { var p }
\* A's metaclass holds the static initializer under the constructor name
UserClasses ==
    (Cls("A") :> NewClass(Cls("Object"), Meta("A"),
        Table3("m", "A_m", "p", "A_p", "init", "A_init")
            @@ Table1("g", "A_g"), FALSE, 1))
    @@ (Meta("A") :> NewClass(Cls("Class"), Cls("Class"),
        Table1("init", "A_sinit") @@ Table1("s", "A_s"), FALSE, 1))
    @@ (Cls("B") :> NewClass(Cls("A"), Meta("B"), EmptyTable, FALSE, 1))
    @@ (Meta("B") :> NewClass(Meta("A"), Cls("Class"), EmptyTable, FALSE, 0))
    @@ (Cls("S") :> [NewClass(Cls("Object"), Meta("S"), Table1("p", "S_p"), FALSE, 1)
                       EXCEPT !.is_struct = TRUE])
    @@ (Meta("S") :> NewClass(Cls("Class"), Cls("Class"), EmptyTable, FALSE, 0))

\* a class X of the host, bridged into the program (xdata set), with no
\* constructor of its own; the delegate of the host has bridge_initinstance
BridgedClasses ==
    (Cls("X") :> NewClass(Cls("Object"), Meta("X"), EmptyTable, FALSE, 0))
    @@ (Meta("X") :> NewClass(Cls("Class"), Cls("Class"), EmptyTable, FALSE, 0))
\* c->xdata
xdata(c) == c \in DOMAIN BridgedClasses
bridge_initinstance == TRUE

\* the closures of the program that carry a context
UserClosures == {"c1", "c2"}
\* closure->f->nparams of the constructors
nparams(cl) == IF cl = "A_init" THEN 3 ELSE 1

\* the class at the other end of the ==> arrow of the class diagram
gravity_class_get_meta(cl, c) == cl[c].objclass

\* walks the superclass chain from c and gives the first member found
RECURSIVE gravity_class_lookup(_, _, _)
gravity_class_lookup(cl, c, key) ==
    IF c = NoClass THEN NoMember
    ELSE IF key \in DOMAIN cl[c].htable THEN cl[c].htable[key]
    ELSE gravity_class_lookup(cl, cl[c].superclass, key)

gravity_class_lookup_constructor(cl, c) == gravity_class_lookup(cl, c, "init")

\* the class of a value: the class of its type, or the objclass of an object
GetClass(cl, inst, v) ==
    CASE v.kind = "Int" -> Cls("Int")
      [] v.kind = "Closure" -> Cls("Closure")
      [] v.kind = "Class" -> cl[Cls(v.s)].objclass
      [] v.kind = "Instance" -> inst[v.n].objclass
      [] OTHER -> Cls("Object")

IsObject(v) == v.kind \in {"Class", "Instance", "Closure", "String"}

gravity_class_is_anon(c) == \E i \in 1..Len(AnonNames) : c.name = AnonNames[i]

\* the class and its metaclass made by gravity_class_new_pair(vm, name, super, 0, 0)
gravity_class_new_pair(cl, name, super) ==
    (Cls(name) :> NewClass(super, Meta(name), EmptyTable, FALSE, 0))
    @@ (Meta(name) :> NewClass(gravity_class_get_meta(cl, super), Cls("Class"),
                               EmptyTable, FALSE, 0))

\* gravity_hash_insert and gravity_hash_remove on a method table
gravity_class_bind(h, key, value) ==
    [k \in DOMAIN h \cup {key} |-> IF k = key THEN value ELSE h[k]]
gravity_hash_remove(h, key) == [k \in DOMAIN h \ {key} |-> h[k]]

CoreNames == {"Object", "Class", "Bool", "Null", "Int", "Float", "Function", "Fiber",
              "String", "Instance", "List", "Map", "Range", "System", "Closure",
              "Upvalue"}

\* the metaclass of a core class: Class for Object and Class themselves
CoreMeta(n) == IF n \in {"Object", "Class"} THEN Cls("Class") ELSE Meta(n)

\* gravity_iscore_class without its second test
gravity_iscore_class_no_meta(c) == c \in {Cls(n) : n \in CoreNames}

\* first the sixteen core classes, then their metaclasses
gravity_iscore_class(c) ==
    \/ c \in {Cls(n) : n \in CoreNames}
    \/ c \in {CoreMeta(n) : n \in CoreNames}

\* the class x had before an anonymous class was put in front of it
OriginalClass(cl, c) == IF gravity_class_is_anon(c) THEN cl[c].superclass ELSE c

\* the closures whose context the model tracks
Closures == UserClosures \cup
    {"A_m", "A_p", "A_g", "A_g_get", "A_s", "A_init", "A_sinit", "S_p",
     "object_notfound", "object_bind",
     "convert_object_int", "convert_object_float", "convert_object_bool",
     "convert_object_string",
     "object_exec", "class_exec", "int_loop", "int_exec", "closure_bind"}

\* a native fails: RETURN_ERROR, nothing else written
Fail(op, msg, x) ==
    /\ RETURN_ERROR(msg)
    /\ last' = [op |-> op, f |-> NULL, res |-> "error", msg |-> msg, x |-> x]
    /\ UNCHANGED heapvars
    /\ UNCHANGED fibervars
    /\ UNCHANGED objvars

\* a native returns without an error
Return(op, res, x) ==
    /\ DoneObj(op, res, x)
    /\ UNCHANGED <<fiber, vmstate>>
    /\ UNCHANGED fibervars

\* Object.bind(name, closure) on the receiver recv = args[0]; the anonymous
\* class is kept in classes under the name gravity_vm_setvalue stores it by
object_bind(recv, nargs, a1, a2) ==
    /\ CanExec
    /\ LET c == GetClass(classes, instance, recv)
           x == [NoExtra EXCEPT !.recv = recv, !.key = a1.s, !.clo = a2.s,
                   !.pre = gravity_class_lookup(classes, OriginalClass(classes, c), a1.s)]
           xf == [NoExtra EXCEPT !.recv = recv]
       IN IF nargs < 3
            THEN Fail("bind", "Incorrect number of arguments.", NoExtra)
          ELSE IF a1.kind # "String"
            THEN Fail("bind", "First argument must be a String.", NoExtra)
          ELSE IF a2.kind # "Closure"
            THEN Fail("bind", "Second argument must be a Closure.", NoExtra)
          ELSE IF recv.kind \notin {"Instance", "Class"}
            THEN Fail("bind", "bind method can be applied only to instances or classes.", xf)
          ELSE IF gravity_iscore_class(c)
            THEN Fail("bind", "Unable to bind method to a Gravity core class.", xf)
          ELSE IF ~gravity_class_is_anon(c)
            THEN /\ nanon < MaxAnon
                 /\ LET name == AnonNames[nanon + 1]
                        anon == Cls(name)
                        added == gravity_class_new_pair(classes, name, c) @@ classes
                        bound == [added EXCEPT ![anon].htable =
                                    gravity_class_bind(@, a1.s, a2.s)]
                    IN IF recv.kind = "Class"
                         THEN /\ classes' = [bound EXCEPT ![Cls(recv.s)].objclass = anon]
                              /\ UNCHANGED instance
                         ELSE /\ classes' = bound
                              /\ instance' = [instance EXCEPT ![recv.n].objclass = anon]
                 /\ nanon' = nanon + 1
                 /\ gcenabled' = TRUE
                 /\ Return("bind", "novalue", x)
                 /\ UNCHANGED <<context, cstack, starts>>
            ELSE /\ classes' = [classes EXCEPT ![c].htable =
                                  gravity_class_bind(@, a1.s, a2.s)]
                 /\ Return("bind", "novalue", x)
                 /\ UNCHANGED <<instance, nanon, gcenabled, context, cstack, starts>>

\* object_unbind that leaves the context of the closure in place
object_unbind_keeps_context(recv, nargs, a1) ==
    /\ CanExec
    /\ LET c == GetClass(classes, instance, recv)
           obj == gravity_class_lookup(classes, c, a1.s)
           x == [NoExtra EXCEPT !.recv = recv, !.key = a1.s, !.clo = obj,
                   !.ret = IF obj # NoMember THEN context[obj] ELSE NoValue]
       IN IF nargs < 2
            THEN Fail("unbind", "Incorrect number of arguments.", NoExtra)
          ELSE IF a1.kind # "String"
            THEN Fail("unbind", "Argument must be a String.", NoExtra)
          ELSE /\ classes' = [classes EXCEPT ![c].htable = gravity_hash_remove(@, a1.s)]
               /\ Return("unbind", "novalue", x)
               /\ UNCHANGED <<instance, nanon, gcenabled, context, cstack, starts>>

\* Object.unbind(name) on the receiver recv = args[0]
object_unbind(recv, nargs, a1) ==
    /\ CanExec
    /\ LET c == GetClass(classes, instance, recv)
           obj == gravity_class_lookup(classes, c, a1.s)
           x == [NoExtra EXCEPT !.recv = recv, !.key = a1.s, !.clo = obj,
                   !.ret = IF obj # NoMember THEN context[obj] ELSE NoValue]
       IN IF nargs < 2
            THEN Fail("unbind", "Incorrect number of arguments.", NoExtra)
          ELSE IF a1.kind # "String"
            THEN Fail("unbind", "Argument must be a String.", NoExtra)
          ELSE /\ context' = IF obj # NoMember
                               THEN [context EXCEPT ![obj] = NoValue]
                               ELSE context
               /\ classes' = [classes EXCEPT ![c].htable = gravity_hash_remove(@, a1.s)]
               /\ Return("unbind", "novalue", x)
               /\ UNCHANGED <<instance, nanon, gcenabled, cstack, starts>>

\* Closure.bind(object) on the closure a0 = args[0]
closure_bind(a0, nargs, a1) ==
    /\ CanExec
    /\ LET x == [NoExtra EXCEPT !.clo = a0.s]
       IN IF nargs # 2
            THEN Fail("closure_bind", "An argument is required by the bind function.",
                      NoExtra)
          ELSE /\ context' =
                    IF a0.kind # "Closure" THEN context
                    ELSE IF a1.kind = "Null" THEN [context EXCEPT ![a0.s] = NoValue]
                    ELSE IF IsObject(a1) THEN [context EXCEPT ![a0.s] = a1]
                    ELSE context
               /\ Return("closure_bind", "novalue", x)
               /\ UNCHANGED <<classes, instance, nanon, gcenabled, cstack, starts>>

\* Class.exec: the construction of an instance of the class recv = args[0];
\* below is the callable object in the slot under args[0]. The program has
\* no bridged class (xdata) and no inner class (has_outer); the constructor
\* found is returned to the interpreter, which executes it.
\* Lines 1692-1698: the register window after the holes nargs..nparams-1 are
\* filled (args[k] of the code is args[k + 1] here).
FillHoles_none(args, nargs, np) == args
FillHoles(args, nargs, np) ==
    [k \in 1..Len(args) |->
        IF k - 1 >= nargs /\ k - 1 < np THEN UndefinedArg ELSE args[k]]

\* A register window holding the callee and zeroed registers
Window(recv) == [k \in 1..MaxArgs |-> IF k = 1 THEN recv ELSE NoValue]

\* args is the register window of the call (MaxArgs registers, of which the
\* first nargs were written by the caller); below is the register under it.
class_exec(args, nargs, below) ==
    /\ CanExec
    /\ LET recv == args[1]
           x0 == [NoExtra EXCEPT !.recv = recv]
           exec == IF recv.kind = "Class" /\ gravity_iscore_class(Cls(recv.s))
                     THEN gravity_class_lookup(classes, Cls(recv.s), "exec")
                     ELSE NoMember
           arg0 == IF recv.kind # "Class" THEN below ELSE recv
       IN IF exec # NoMember
            THEN /\ Return("construct", "closure", [x0 EXCEPT !.clo = exec])
                 /\ UNCHANGED objvars
          ELSE IF arg0.kind # "Class"
            THEN Fail("construct", "Unable to execute non class object.", x0)
          ELSE LET c == Cls(arg0.s)
                   i == Len(instance) + 1
                   closure == gravity_class_lookup_constructor(classes, c)
                   self == [args EXCEPT ![1] = InstanceValue(i)]
                   x == [x0 EXCEPT !.recv = arg0, !.clo = closure,
                                   !.ret = InstanceValue(i),
                                   !.win = args, !.nargs = nargs,
                                   !.args = IF closure # NoMember
                                              THEN FillHoles(self, nargs, nparams(closure))
                                              ELSE self]
               IN /\ Len(instance) < MaxInst
                  /\ instance' = Append(instance,
                        [objclass |-> c,
                         ivars |-> [k \in 1..classes[c].nivars |-> NoValue]])
                  /\ IF closure = NoMember /\ xdata(c) /\ bridge_initinstance
                          /\ nargs # 1
                       THEN \* lines 1704-1707: the error return of a bridged class
                            /\ gcenabled' = FALSE
                            /\ RETURN_ERROR("No init with parameters found in class")
                            /\ last' = [op |-> "construct", f |-> NULL, res |-> "error",
                                        msg |-> "No init with parameters found in class",
                                        x |-> [x0 EXCEPT !.recv = arg0, !.nargs = nargs]]
                            /\ UNCHANGED heapvars
                            /\ UNCHANGED fibervars
                       ELSE /\ gcenabled' = TRUE
                            /\ Return("construct",
                                      IF closure # NoMember THEN "closure" ELSE "value", x)
                  /\ UNCHANGED <<classes, context, nanon, cstack, starts>>

\* the functions of the program that are executed as values: func->nparams
\* counts self, the register args[0]
FunctionValue(fn) == [kind |-> "Function", n |-> 0, s |-> fn, hi |-> 0]
func_nparams(fn) == IF fn = "f3" THEN 3 ELSE IF fn = "f2" THEN 2 ELSE 1

\* lines 1786-1790: the while loop that fills the default values
\* (args[k] of the code is args[k + 1] here)
RECURSIVE FillDefaults(_, _, _)
FillDefaults(args, nargs, np) ==
    IF nargs < np
      THEN LET index == np - nargs
           IN FillDefaults([args EXCEPT ![index + 1] = UndefinedArg], nargs + 1, np)
      ELSE args

\* Function.exec: the function args[0] is wrapped in a new closure, which
\* is returned to the interpreter to be executed on the window
function_exec(args, nargs) ==
    /\ CanExec
    /\ LET x == [NoExtra EXCEPT !.recv = args[1], !.win = args, !.nargs = nargs]
       IN IF args[1].kind # "Function"
            THEN Fail("function_exec", "Unable to convert Object to closure", x)
            ELSE /\ Return("function_exec", "closure",
                           [x EXCEPT !.clo = args[1].s,
                                     !.args = FillDefaults(args, nargs,
                                                           func_nparams(args[1].s))])
                 /\ UNCHANGED objvars

\* the index that marks a computed property (no ivar slot behind it)
GRAVITY_COMPUTED_INDEX == 65535

\* closure->f of a closure: tag, ivar index and the getter and setter closures
Function(cl) ==
    CASE cl \in {"A_p", "A_s", "S_p"} ->
           [special |-> TRUE, index |-> 0, getter |-> NoMember, setter |-> NoMember]
      [] cl = "A_g" ->
           [special |-> TRUE, index |-> GRAVITY_COMPUTED_INDEX,
            getter |-> "A_g_get", setter |-> NoMember]
      [] OTHER ->
           [special |-> FALSE, index |-> 0, getter |-> NoMember, setter |-> NoMember]
FUNCTION_ISA_SPECIAL(f) == f.special
FUNCTION_ISA_DEFAULT_GETTER(f) ==
    f.index < GRAVITY_COMPUTED_INDEX /\ f.getter = NoMember
FUNCTION_ISA_GETTER(f) == f.getter # NoMember
FUNCTION_ISA_DEFAULT_SETTER(f) ==
    f.index < GRAVITY_COMPUTED_INDEX /\ f.setter = NoMember
FUNCTION_ISA_SETTER(f) == f.setter # NoMember

\* the cast (uint32)key.n keeps the low limb
ToUint32(key) == key.n

\* a native returns a value or a closure to execute, or fails, and writes
\* nothing of the scheduler
Ret(op, res, x) ==
    /\ DoneObj(op, res, x)
    /\ UNCHANGED <<fiber, vmstate>>
Err(op, msg, x) ==
    /\ RETURN_ERROR(msg)
    /\ last' = [op |-> op, f |-> NULL, res |-> "error", msg |-> msg, x |-> x]
    /\ UNCHANGED heapvars

\* the metaclass a load or store on target has to initialize first
MetaOf(target) == gravity_class_get_meta(classes, Cls(target.s))
NeedsInit(target) == target.kind = "Class" /\ ~classes[MetaOf(target)].is_inited
\* meta->is_inited = true
Inited(target) == [classes EXCEPT ![MetaOf(target)].is_inited = TRUE]
Started(m) == (m :> (IF m \in DOMAIN starts THEN starts[m] ELSE 0) + 1) @@ starts

\* gravity_vm_runclosure(vm, closure, meta, NULL, 0): the body of the static
\* initializer begins and the native waits for it
RunInitializer(op, target, key, value) ==
    /\ classes' = Inited(target)
    /\ starts' = Started(MetaOf(target))
    /\ cstack' = Append(cstack, [op |-> op, target |-> target, key |-> key,
                                 value |-> value, meta |-> MetaOf(target)])
    /\ DoneObj("init_start", "closure", [NoExtra EXCEPT !.recv = target])
    /\ UNCHANGED <<fiber, vmstate, instance, context, nanon, gcenabled>>
    /\ UNCHANGED fibervars

\* object_load from "retrieve class and process key" on; cl is the class
\* registry as the first part of the native left it
\* a load that hands the slot over: the slot reads as Null right after it
LoadSlot_consumed(cl, target, c, i) ==
    IF last.op = "load" /\ last.res = "value" THEN NoValue
    ELSE IF target.kind = "Instance" THEN instance[target.n].ivars[i + 1]
    ELSE cl[c].ivars[i + 1]
\* lines 664-667 and 696-698: the slot of the instance, or of the class
LoadSlot(cl, target, c, i) ==
    IF target.kind = "Instance" THEN instance[target.n].ivars[i + 1]
    ELSE cl[c].ivars[i + 1]

\* x.flag: the operation before this load was a load of the same member of
\* the same target that returned a value
LoadFinish(cl, target, key) ==
    LET c == GetClass(cl, instance, target)
        slot(i) == LoadSlot(cl, target, c, i)
        obj == gravity_class_lookup(cl, c, key.s)
        f == Function(obj)
        x == [NoExtra EXCEPT !.recv = target, !.key = key.s, !.k = key,
                !.flag = (last.op = "load" /\ last.res = "value"
                            /\ last.x.recv = target /\ last.x.k = key)]
        notfound == Ret("load", "closure",
                        [x EXCEPT !.clo = gravity_class_lookup(cl, c, "notfound")])
    IN /\ classes' = cl
       /\ UNCHANGED <<instance, context, nanon, gcenabled>>
       /\ UNCHANGED fibervars
       /\ IF key.kind = "Int"
            THEN IF ToUint32(key) >= cl[c].nivars
                   THEN Err("load", "Out of bounds ivar index in load operation (1).", x)
                   ELSE Ret("load", "value", [x EXCEPT !.ret = slot(ToUint32(key))])
          ELSE IF key.kind # "String"
            THEN Err("load", "Unable to lookup non string value into class", x)
          ELSE IF obj = NoMember
            THEN notfound
          ELSE IF FUNCTION_ISA_SPECIAL(f)
            THEN IF FUNCTION_ISA_DEFAULT_GETTER(f)
                   THEN IF f.index >= cl[c].nivars
                          THEN Err("load",
                                   "Out of bounds ivar index in load operation (2).", x)
                          ELSE Ret("load", "value", [x EXCEPT !.ret = slot(f.index)])
                 ELSE IF FUNCTION_ISA_GETTER(f)
                   THEN Ret("load", "closure", [x EXCEPT !.clo = f.getter])
                 ELSE notfound
          ELSE Ret("load", "value", [x EXCEPT !.ret = ClosureValue(obj)])

\* the load of key from target
object_load(target, key) ==
    /\ CanExec
    /\ IF NeedsInit(target)
            /\ gravity_class_lookup_constructor(classes, MetaOf(target)) # NoMember
         THEN RunInitializer("load", target, key, NoValue)
         ELSE /\ LoadFinish(IF NeedsInit(target) THEN Inited(target) ELSE classes,
                            target, key)
              /\ UNCHANGED <<cstack, starts>>

\* instances of a struct have value semantics
gravity_instance_isstruct(i) == classes[instance[i].objclass].is_struct
\* a new instance of the same class with the same ivar values
gravity_instance_clone(i) == instance[i]

\* the value is stored by reference, whatever it is
IsStructValue_never(value) == FALSE
\* the test that makes a store clone the value
IsStructValue(value) ==
    value.kind = "Instance" /\ gravity_instance_isstruct(value.n)

\* object_store from "retrieve class and process key" on
StoreFinish(cl, target, key, value) ==
    LET c == GetClass(cl, instance, target)
        obj == gravity_class_lookup(cl, c, key.s)
        f == Function(obj)
        x == [NoExtra EXCEPT !.recv = target, !.key = key.s, !.ret = value,
                             !.k = key]
        write(i) ==
            LET cloning == IsStructValue(value)
                stored == IF cloning THEN InstanceValue(Len(instance) + 1) ELSE value
                cloned == IF cloning
                            THEN Append(instance, gravity_instance_clone(value.n))
                            ELSE instance
            IN /\ cloning => Len(instance) < MaxInst + MaxClone
               /\ IF target.kind = "Instance"
                    THEN /\ instance' = [cloned EXCEPT ![target.n].ivars[i + 1] = stored]
                         /\ classes' = cl
                    ELSE /\ classes' = [cl EXCEPT ![c].ivars[i + 1] = stored]
                         /\ instance' = cloned
               /\ Ret("store", "novalue", x)
        nowrite == classes' = cl /\ UNCHANGED instance
        notfound ==
            /\ nowrite
            /\ Ret("store", "closure",
                   [x EXCEPT !.clo = gravity_class_lookup(cl, c, "notfound")])
    IN /\ UNCHANGED <<context, nanon, gcenabled>>
       /\ UNCHANGED fibervars
       /\ IF key.kind = "Int"
            THEN IF ToUint32(key) >= cl[c].nivars
                   THEN /\ nowrite
                        /\ Err("store",
                               "Out of bounds ivar index in store operation (1).", x)
                   ELSE write(ToUint32(key))
          ELSE IF key.kind # "String"
            THEN nowrite /\ Err("store", "Unable to lookup non string value into class", x)
          ELSE IF obj = NoMember
            THEN notfound
          ELSE IF FUNCTION_ISA_SPECIAL(f)
            THEN IF FUNCTION_ISA_DEFAULT_SETTER(f)
                   THEN IF f.index >= cl[c].nivars
                          THEN /\ nowrite
                               /\ Err("store",
                                      "Out of bounds ivar index in store operation (2).", x)
                          ELSE write(f.index)
                 ELSE IF FUNCTION_ISA_SETTER(f)
                   THEN nowrite /\ Ret("store", "closure", [x EXCEPT !.clo = f.setter])
                 ELSE notfound
          ELSE nowrite /\ Ret("store", "novalue", x)

\* the store of value under key into target
object_store(target, key, value) ==
    /\ CanExec
    /\ IF NeedsInit(target)
            /\ gravity_class_lookup_constructor(classes, MetaOf(target)) # NoMember
         THEN RunInitializer("store", target, key, value)
         ELSE /\ StoreFinish(IF NeedsInit(target) THEN Inited(target) ELSE classes,
                             target, key, value)
              /\ UNCHANGED <<cstack, starts>>

\* Object's notfound: lines 816-822
object_notfound(recv, key) ==
    /\ CanExec
    /\ Fail("notfound",
            "Unable to find " \o (IF key.kind = "String" THEN key.s ELSE "N/A")
                \o " into class " \o GetClass(classes, instance, recv).name,
            [NoExtra EXCEPT !.recv = recv, !.k = key])

(***************************************************************************)
(* Numbers of 64 bits.  gravity_int_t is signed and 64 bits wide; where    *)
(* all of its bits matter a number is four limbs of 16 bits, the most      *)
(* significant first, in two's complement.                                 *)
(***************************************************************************)
Limb == 65536
Int64(n) == <<0, 0, 0, n>>
INT64_MAX == <<32767, 65535, 65535, 65535>>
INT64_MIN == <<32768, 0, 0, 0>>
Negative64(a) == a[1] >= 32768
RECURSIVE Below64(_, _, _)
\* a < b as unsigned numbers, from limb k on
Below64(a, b, k) ==
    IF k > 4 THEN FALSE
    ELSE IF a[k] # b[k] THEN a[k] < b[k]
    ELSE Below64(a, b, k + 1)
Less64(a, b) ==
    IF Negative64(a) # Negative64(b) THEN Negative64(a) ELSE Below64(a, b, 1)
LessEq64(a, b) == a = b \/ Less64(a, b)
RECURSIVE Carry64(_, _)
\* a + 1 modulo 2^64: the limbs k .. 4 incremented
Carry64(a, k) ==
    IF k = 0 THEN a
    ELSE IF a[k] = Limb - 1 THEN Carry64([a EXCEPT ![k] = 0], k - 1)
    ELSE [a EXCEPT ![k] = a[k] + 1]
Inc64(a) == Carry64(a, 4)
RECURSIVE Borrow64(_, _)
Borrow64(a, k) ==
    IF k = 0 THEN a
    ELSE IF a[k] = 0 THEN Borrow64([a EXCEPT ![k] = Limb - 1], k - 1)
    ELSE [a EXCEPT ![k] = a[k] - 1]
Dec64(a) == Borrow64(a, 4)
\* -a modulo 2^64
Neg64(a) ==
    Inc64(<<Limb - 1 - a[1], Limb - 1 - a[2], Limb - 1 - a[3], Limb - 1 - a[4]>>)
\* the limbs of an Int value, and the Int value of four limbs: an Int whose
\* two limbs of 32 bits are both below 2^31 is kept as [hi, n], every other
\* one (the negative ones among them) as its four limbs w
Limbs(v) ==
    IF "w" \in DOMAIN v THEN v.w
    ELSE <<v.hi \div Limb, v.hi % Limb, v.n \div Limb, v.n % Limb>>
FromLimbs(a) ==
    IF a[1] < 32768 /\ a[3] < 32768
      THEN WideIntArg(a[1] * Limb + a[2], a[3] * Limb + a[4])
      ELSE [kind |-> "Int", w |-> a]

(***************************************************************************)
(* Conversions.  cur is the closure the interpreter is executing           *)
(* (gravity_vm_getclosure) and run the result of gravity_vm_runclosure     *)
(* when the conversion runs a closure: ErrorValue when the run failed,     *)
(* the value the closure returned otherwise.  A conversion yields          *)
(* [val, found, ran]: the value, the conversion method found on the class, *)
(* and the closure that was run (NoMember when none was).                  *)
(***************************************************************************)
VALUE_ISA_NULL(v) == v.kind = "Null" /\ v.n = 0
\* (gravity_float_t)v.n: a double has 53 bits of mantissa, so an Int below
\* 2^53 (hi below 2^21) is kept and an Int of 2^53 .. 2^54 is rounded to the
\* nearest multiple of 2, a tie to the multiple of 4.  The Floats of the
\* model are these whole numbers, kept in two limbs like the Ints.
Pow21 == 2097152
Pow53 == WideIntArg(Pow21, 0)
int2double_exact(v) == [kind |-> "Float", n |-> v.n, s |-> "", hi |-> v.hi]
int2double(v) ==
    [kind |-> "Float", s |-> "", hi |-> v.hi,
     n |-> IF v.hi < Pow21 \/ v.n % 2 = 0 THEN v.n
           ELSE IF (v.n \div 2) % 2 = 0 THEN v.n - 1
           ELSE v.n + 1]
\* A Float that is not one of these whole numbers is a fraction of small
\* numbers q = <<numerator, denominator>>, reduced and with a positive
\* denominator; <<0, 0>> is NaN.  The rounding of a double is left out of
\* the fractions.
RECURSIVE GCD(_, _)
GCD(a, b) == IF b = 0 THEN a ELSE GCD(b, a % b)
Abs(z) == IF z < 0 THEN 0 - z ELSE z
NaN == [kind |-> "Float", q |-> <<0, 0>>]
IsFraction(v) == "q" \in DOMAIN v
Frac(v) == IF IsFraction(v) THEN v.q ELSE <<v.n, 1>>
FromFrac(num, den) ==
    IF den = 0 THEN NaN
    ELSE LET g == GCD(Abs(num), Abs(den))
             negative == (num < 0) # (den < 0)
             top == Abs(num) \div g
             bottom == Abs(den) \div g
         IN IF bottom = 1 /\ (~negative \/ top = 0) THEN FloatArg(top)
            ELSE [kind |-> "Float", q |-> <<IF negative THEN 0 - top ELSE top, bottom>>]
\* the small Ints as numbers: the Int of a number z and the number of an Int
\* of less than 16 bits
IntOf(z) == IF z < 0 THEN FromLimbs(Neg64(Int64(0 - z))) ELSE IntArg(z)
ZOf(v) == IF "w" \in DOMAIN v THEN 0 - Neg64(v.w)[4] ELSE v.n
\* p / d rounded towards zero, and rounded down
Trunc(p, d) == IF p < 0 THEN 0 - ((0 - p) \div d) ELSE p \div d
Floor(p, d) == IF p < 0 THEN 0 - ((d - 1 - p) \div d) ELSE p \div d
\* (gravity_int_t)v.f
double2int(v) ==
    IF IsFraction(v) THEN IntOf(Trunc(v.q[1], v.q[2])) ELSE WideIntArg(v.hi, v.n)
VALUE_ISA_UNDEFINED(v) == v.kind = "Null" /\ v.n = 1
Yield(v) == [val |-> v, found |-> NoMember, ran |-> NoMember]
\* the decimal numeral of n (snprintf with %g of a whole number)
Digit == <<"0", "1", "2", "3", "4", "5", "6", "7", "8", "9">>
RECURSIVE ToDecimal(_)
ToDecimal(n) ==
    IF n < 10 THEN Digit[n + 1] ELSE ToDecimal(n \div 10) \o Digit[(n % 10) + 1]
\* a string is the sequence of its characters; Text is the string of a
\* sequence of characters
RECURSIVE Text(_)
Text(chars) == IF chars = <<>> THEN "" ELSE chars[1] \o Text(Tail(chars))
\* a / 10 of an unsigned number of 64 bits, from limb k on with the
\* remainder r of the limbs before it: the quotient q and the remainder r
RECURSIVE Div10(_, _, _)
Div10(a, k, r) ==
    IF k > 4 THEN [q |-> a, r |-> r]
    ELSE LET cur == r * Limb + a[k]
         IN Div10([a EXCEPT ![k] = cur \div 10], k + 1, cur % 10)
\* the decimal digits of an unsigned number of 64 bits
RECURSIVE DecimalChars(_)
DecimalChars(a) ==
    LET d == Div10(a, 1, 0)
    IN IF d.q = Int64(0) THEN <<Digit[d.r + 1]>>
       ELSE Append(DecimalChars(d.q), Digit[d.r + 1])
\* the characters snprintf(buffer, sizeof(buffer), "%" PRId64, v.n) writes:
\* line 372
SignedChars(a) ==
    IF Negative64(a) THEN <<"-">> \o DecimalChars(Neg64(a)) ELSE DecimalChars(a)
snprintf_d(a) == Text(SignedChars(a))

\* the Ints and the strings of digits that the conversions are given
RoundInts ==
    {IntArg(0), IntArg(1), IntArg(7), IntArg(42), IntArg(65536),
     WideIntArg(1, 0), Pow53, WideIntArg(Pow21, 1), WideIntArg(Pow21, 2),
     FromLimbs(Neg64(Int64(5))), FromLimbs(Neg64(Int64(42))),
     FromLimbs(INT64_MAX), FromLimbs(Dec64(INT64_MAX)), FromLimbs(INT64_MIN)}
Numerals ==
    {<<"0">>, <<"1">>, <<"7">>, <<"4", "2">>, <<"-", "5">>, <<"-", "0">>,
     <<"0", "1", "7">>, <<"+", "7">>, <<"7", "k">>,
     <<"9", "2", "2", "3", "3", "7", "2", "0", "3", "6",
       "8", "5", "4", "7", "7", "5", "8", "0", "8">>,
     <<"-", "9", "2", "2", "3", "3", "7", "2", "0", "3", "6",
       "8", "5", "4", "7", "7", "5", "8", "0", "9">>}
        \cup {SignedChars(Limbs(v)) : v \in RoundInts}
\* the characters of a string; a string that is not one of the numerals has
\* no digit in it
CharsAmong(numerals, s) ==
    IF \E c \in numerals : Text(c) = s
      THEN CHOOSE c \in numerals : Text(c) = s
      ELSE <<s>>
Chars(s) == IF s = "" THEN <<>> ELSE CharsAmong(Numerals, s)
IsDigit(c) == \E d \in 0..9 : Digit[d + 1] = c
DigitValue(c) == CHOOSE d \in 0..9 : Digit[d + 1] = c
\* a * base + carry as an unsigned number of 64 bits, from limb k down, and
\* whether the result went past 64 bits
RECURSIVE MulAdd(_, _, _, _)
MulAdd(a, base, carry, k) ==
    IF k = 0 THEN [val |-> a, over |-> carry > 0]
    ELSE LET t == a[k] * base + carry
         IN MulAdd([a EXCEPT ![k] = t % Limb], base, t \div Limb, k - 1)
\* the digits of chars from position i on, taken in as a number
RECURSIVE Accumulate(_, _, _, _, _)
Accumulate(chars, i, base, acc, over) ==
    IF i > Len(chars) THEN [val |-> acc, over |-> over]
    ELSE IF ~IsDigit(chars[i]) THEN [val |-> acc, over |-> over]
    ELSE IF DigitValue(chars[i]) >= base THEN [val |-> acc, over |-> over]
    ELSE LET m == MulAdd(acc, base, DigitValue(chars[i]), 4)
         IN IF m.over THEN Accumulate(chars, i + 1, base, m.val, TRUE)
            ELSE Accumulate(chars, i + 1, base, m.val, over)
\* the number m of the digits with its sign, LLONG_MAX or LLONG_MIN for a
\* number out of range
Saturated(negative, m) ==
    IF negative
      THEN (IF m.over \/ Below64(INT64_MIN, m.val, 1) THEN INT64_MIN
            ELSE Neg64(m.val))
      ELSE (IF m.over \/ Negative64(m.val) THEN INT64_MAX ELSE m.val)
\* the digits of chars after the sign, in base 8 after a leading 0 and in
\* base 10 otherwise, up to the first character that is no digit
ParseFrom(chars, negative, first) ==
    Saturated(negative,
              Accumulate(chars, first,
                         IF first <= Len(chars) /\ chars[first] = "0" THEN 8 ELSE 10,
                         Int64(0), FALSE))
ParseChars(chars) ==
    IF Len(chars) > 0 /\ chars[1] \in {"-", "+"}
      THEN ParseFrom(chars, chars[1] = "-", 2)
      ELSE ParseFrom(chars, FALSE, 1)
\* strtoll(s, NULL, 0)
strtoll(s) == ParseChars(Chars(s))
\* strtod(s, NULL) of the numerals of the model, whole numbers that a
\* double holds
strtod(s) == int2double(FromLimbs(strtoll(s)))
\* lines 110-143; no string of the model has the form 0b.., 0o.. or 0x..
convert_string2number(s, float) ==
    IF s = "" THEN (IF float THEN FloatArg(0) ELSE IntArg(0))
    ELSE IF float THEN strtod(s) ELSE FromLimbs(strtoll(s))

\* the tail the conversions to Int and to Float share: lines 303-310, 329-336
ConvertByMethod(cl, inst, v, name, dispatcher, cur, run) ==
    LET closure == gravity_class_lookup(cl, GetClass(cl, inst, v), name)
    IN IF closure = NoMember \/ closure = dispatcher \/ cur = closure
         THEN [val |-> ErrorValue, found |-> closure, ran |-> NoMember]
         ELSE [val |-> run, found |-> closure, ran |-> closure]

convert_value2int(cl, inst, v, cur, run) ==
    IF v.kind = "Int" THEN Yield(v)
    ELSE IF v.kind = "Float" THEN Yield(double2int(v))
    ELSE IF v.kind = "Bool" THEN Yield(IntArg(v.n))
    ELSE IF VALUE_ISA_NULL(v) THEN Yield(IntArg(0))
    ELSE IF VALUE_ISA_UNDEFINED(v) THEN Yield(IntArg(0))
    ELSE IF v.kind = "String" THEN Yield(convert_string2number(v.s, FALSE))
    ELSE ConvertByMethod(cl, inst, v, "Int", "convert_object_int", cur, run)

convert_value2float(cl, inst, v, cur, run) ==
    IF v.kind = "Float" THEN Yield(v)
    ELSE IF v.kind = "Int" THEN Yield(int2double(v))
    ELSE IF v.kind = "Bool" THEN Yield(FloatArg(v.n))
    ELSE IF VALUE_ISA_NULL(v) THEN Yield(FloatArg(0))
    ELSE IF VALUE_ISA_UNDEFINED(v) THEN Yield(FloatArg(0))
    ELSE IF v.kind = "String" THEN Yield(convert_string2number(v.s, TRUE))
    ELSE ConvertByMethod(cl, inst, v, "Float", "convert_object_float", cur, run)

convert_value2bool(cl, inst, v, cur, run) ==
    IF v.kind = "Bool" THEN Yield(v)
    ELSE IF v.kind = "Int" THEN Yield(BoolArg(Limbs(v) # Int64(0)))
    ELSE IF v.kind = "Float"
      THEN Yield(BoolArg(IsFraction(v) \/ v.n # 0 \/ v.hi # 0))
    ELSE IF VALUE_ISA_NULL(v) THEN Yield(BoolArg(FALSE))
    ELSE IF VALUE_ISA_UNDEFINED(v) THEN Yield(BoolArg(FALSE))
    ELSE IF v.kind = "String"
      THEN (IF v.s = "" THEN Yield(BoolArg(FALSE)) ELSE Yield(BoolArg(v.s # "false")))
    ELSE LET closure == gravity_class_lookup(cl, GetClass(cl, inst, v), "Bool")
         IN IF closure = NoMember \/ closure = "convert_object_bool" \/ cur = closure
              THEN [val |-> BoolArg(TRUE), found |-> closure, ran |-> NoMember]
              ELSE [val |-> run, found |-> closure, ran |-> closure]

\* no instance is bridged
convert_value2string(cl, inst, v, cur, run) ==
    IF v.kind = "String" THEN Yield(v)
    ELSE IF v.kind = "Int" THEN Yield(StringArg(snprintf_d(Limbs(v))))
    ELSE IF v.kind = "Bool" THEN Yield(StringArg(IF v.n # 0 THEN "true" ELSE "false"))
    ELSE IF VALUE_ISA_NULL(v) THEN Yield(StringArg("null"))
    ELSE IF VALUE_ISA_UNDEFINED(v) THEN Yield(StringArg("undefined"))
    ELSE IF v.kind = "Float" THEN Yield(StringArg(ToDecimal(v.n)))
    ELSE IF v.kind = "Class" THEN Yield(StringArg(v.s))
    ELSE IF v.kind = "Closure"
      THEN Yield(StringArg(IF v.s = "" THEN "anonymous closure" ELSE v.s))
    ELSE LET closure == gravity_class_lookup(cl, GetClass(cl, inst, v), "String")
         IN IF closure = NoMember \/ closure = "convert_object_string" \/ cur = closure
              THEN [val |-> IF v.kind = "Instance"
                              THEN StringArg("instance of " \o inst[v.n].objclass.name)
                              ELSE ErrorValue,
                    found |-> closure, ran |-> NoMember]
              ELSE [val |-> IF run = ErrorValue THEN ErrorValue
                            ELSE IF run.kind # "String" THEN StringArg("null")
                            ELSE run,
                    found |-> closure, ran |-> closure]

\* the natives Int, Float, Bool and String of Object (lines 145-179)
ConvertObject(name, r, v, cur) ==
    /\ CanExec
    /\ LET x == [NoExtra EXCEPT !.recv = v, !.key = name, !.pre = r.found,
                                !.clo = r.ran, !.ret = r.val, !.cur = cur]
       IN IF r.val = ErrorValue
            THEN Fail("convert", "Unable to convert object to " \o name \o ".", x)
            ELSE /\ Return("convert", "value", x)
                 /\ UNCHANGED objvars
convert_object_int(v, cur, run) ==
    ConvertObject("Int", convert_value2int(classes, instance, v, cur, run), v, cur)
convert_object_float(v, cur, run) ==
    ConvertObject("Float", convert_value2float(classes, instance, v, cur, run), v, cur)
convert_object_bool(v, cur, run) ==
    ConvertObject("Bool", convert_value2bool(classes, instance, v, cur, run), v, cur)
convert_object_string(v, cur, run) ==
    ConvertObject("String", convert_value2string(classes, instance, v, cur, run), v, cur)

(***************************************************************************)
(* The compare operators of Null, Int, Bool and Float.                     *)
(***************************************************************************)
\* the Int results of a compare; -1 has every bit of both limbs set
IntResult(n) == [kind |-> "Int", n |-> n, s |-> "", hi |-> IF n < 0 THEN 0 - 1 ELSE 0]
\* v1.n == v2.n and v1.n > v2.n on the two limbs
\* with a fraction among them v1.f == v2.f and v1.f > v2.f, false for NaN
SameN(v1, v2) ==
    IF IsFraction(v1) \/ IsFraction(v2) THEN v1 = v2 /\ v1 # NaN
    ELSE v1.hi = v2.hi /\ v1.n = v2.n
GreaterN(v1, v2) ==
    IF IsFraction(v1) \/ IsFraction(v2)
      THEN /\ v1 # NaN /\ v2 # NaN
           /\ Frac(v1)[1] * Frac(v2)[2] > Frac(v2)[1] * Frac(v1)[2]
    ELSE v1.hi > v2.hi \/ (v1.hi = v2.hi /\ v1.n > v2.n)
\* lines 2088-2095 and 1890-1896: r is the conversion of args[1], win the
\* registers the native was called with
CompareWin(win, a0, a1, r, name, cur) ==
    /\ CanExec
    /\ LET v2 == r.val
           x == [NoExtra EXCEPT !.recv = a0, !.k = a1, !.key = name,
                                !.clo = r.ran, !.cur = cur, !.win = win]
       IN IF v2 = ErrorValue
            THEN Fail("cmp", "Unable to convert object to " \o name, x)
            ELSE /\ Return("cmp", "value",
                       [x EXCEPT !.ret =
                           IF SameN(a0, v2) THEN IntResult(0)
                           ELSE IF GreaterN(a0, v2) THEN IntResult(1)
                           ELSE IntResult(0 - 1)])
                 /\ UNCHANGED objvars
CompareWith(a0, a1, r, name, cur) == CompareWin(<<a0, a1>>, a0, a1, r, name, cur)

\* lines 1885-1897, on the registers win with args[0] = a0
FloatCmp(win, a0, a1, cur, run) ==
    CompareWin(win, a0, a1, convert_value2float(classes, instance, a1, cur, run),
               "Float", cur)
operator_float_cmp(a0, a1, cur, run) == FloatCmp(<<a0, a1>>, a0, a1, cur, run)

\* lines 2080-2096: with a Float in args[1], args[0] is overwritten with its
\* conversion to Float and operator_float_cmp is called on the registers
operator_int_cmp(a0, a1, cur, run) ==
    IF a1.kind = "Float"
      THEN FloatCmp(<<a0, a1>>, int2double(a0), a1, cur, run)
      ELSE CompareWith(a0, a1, convert_value2int(classes, instance, a1, cur, run),
                       "Int", cur)

operator_bool_cmp(a0, a1, cur, run) == operator_int_cmp(a0, a1, cur, run)

operator_null_cmp(a0, a1, cur, run) ==
    IF VALUE_ISA_UNDEFINED(a0)
      THEN /\ CanExec
           /\ Return("cmp", "value",
                 [NoExtra EXCEPT !.recv = a0, !.k = a1, !.key = "Null", !.cur = cur,
                                 !.ret = BoolArg(VALUE_ISA_UNDEFINED(a1))])
           /\ UNCHANGED objvars
      ELSE operator_int_cmp(IntArg(0), a1, cur, run)

(***************************************************************************)
(* The binary arithmetic operators of Int and Float.  The Ints given to    *)
(* them are small, so that no sum, difference or product leaves 16 bits.   *)
(***************************************************************************)
\* v1.n / v2.n and v1.n % v2.n of C: the quotient rounded towards zero
IntQuotient(z1, z2) ==
    IF (z1 < 0) # (z2 < 0) THEN 0 - (Abs(z1) \div Abs(z2)) ELSE Abs(z1) \div Abs(z2)
IntRemainder(z1, z2) == z1 - z2 * IntQuotient(z1, z2)
\* v1.f + v2.f, v1.f - v2.f, v1.f * v2.f and v1.f / v2.f
FloatSum(v1, v2) ==
    FromFrac(Frac(v1)[1] * Frac(v2)[2] + Frac(v2)[1] * Frac(v1)[2],
             Frac(v1)[2] * Frac(v2)[2])
FloatDifference(v1, v2) ==
    FromFrac(Frac(v1)[1] * Frac(v2)[2] - Frac(v2)[1] * Frac(v1)[2],
             Frac(v1)[2] * Frac(v2)[2])
FloatProduct(v1, v2) ==
    FromFrac(Frac(v1)[1] * Frac(v2)[1], Frac(v1)[2] * Frac(v2)[2])
FloatQuotient(v1, v2) ==
    FromFrac(Frac(v1)[1] * Frac(v2)[2], Frac(v1)[2] * Frac(v2)[1])
\* remainder(v1.f, v2.f) of the C library: v1.f - n * v2.f with n the whole
\* number nearest to v1.f / v2.f, the even one of two equally near; NaN for
\* v2.f = 0
FloatRemainder(v1, v2) ==
    LET a == Frac(v1)
        b == Frac(v2)
        p == (IF b[1] < 0 THEN 0 - 1 ELSE 1) * a[1] * b[2]
        r == a[2] * Abs(b[1])
    IN IF r = 0 THEN NaN
       ELSE LET low == Floor(p, r)
                twice == 2 * (p - low * r)
                n == IF twice < r THEN low
                     ELSE IF twice > r THEN low + 1
                     ELSE IF low % 2 = 0 THEN low
                     ELSE low + 1
            IN FromFrac(a[1] * b[2] - n * b[1] * a[2], a[2] * b[2])

ArithExtra(name, a0, a1, ran, cur) ==
    [NoExtra EXCEPT !.recv = a0, !.k = a1, !.key = name, !.clo = ran,
                    !.cur = cur, !.win = <<a0, a1>>]
\* operator_int_add, _sub, _div, _mul and _rem: lines 1999-2046; r is the
\* conversion of args[1]
IntFinish(name, a0, a1, cur, r, v2) ==
    LET x == ArithExtra(name, a0, a1, r.ran, cur)
    IN IF v2 = ErrorValue
         THEN Fail("arith", "Unable to convert object to Int", x)
       ELSE IF name = "div" /\ ZOf(v2) = 0
         THEN Fail("arith", "Division by 0 error.", x)
       ELSE IF name = "rem" /\ ZOf(v2) = 0
         THEN Fail("arith", "Reminder by 0 error.", x)
       ELSE /\ Return("arith", "value",
                  [x EXCEPT !.ret =
                      CASE name = "add" -> IntOf(ZOf(a0) + ZOf(v2))
                        [] name = "sub" -> IntOf(ZOf(a0) - ZOf(v2))
                        [] name = "div" -> IntOf(IntQuotient(ZOf(a0), ZOf(v2)))
                        [] name = "mul" -> IntOf(ZOf(a0) * ZOf(v2))
                        [] name = "rem" -> IntOf(IntRemainder(ZOf(a0), ZOf(v2)))])
            /\ UNCHANGED objvars
IntConverted(name, a0, a1, cur, r) == IntFinish(name, a0, a1, cur, r, r.val)
IntOperator(name, a0, a1, cur, run) ==
    /\ CanExec
    /\ IntConverted(name, a0, a1, cur,
                    convert_value2int(classes, instance, a1, cur, run))
operator_int_add(a0, a1, cur, run) == IntOperator("add", a0, a1, cur, run)
operator_int_sub(a0, a1, cur, run) == IntOperator("sub", a0, a1, cur, run)
operator_int_div(a0, a1, cur, run) == IntOperator("div", a0, a1, cur, run)
operator_int_mul(a0, a1, cur, run) == IntOperator("mul", a0, a1, cur, run)
operator_int_rem(a0, a1, cur, run) == IntOperator("rem", a0, a1, cur, run)

\* the result of a Float operator on two Floats
FloatResult(name, v1, v2) ==
    CASE name = "add" -> FloatSum(v1, v2)
      [] name = "sub" -> FloatDifference(v1, v2)
      [] name = "div" -> FloatQuotient(v1, v2)
      [] name = "mul" -> FloatProduct(v1, v2)
      [] name = "rem" -> FloatRemainder(v1, v2)
\* operator_float_add, _sub, _div, _mul and _rem: lines 1796-1851; r1 and
\* r2 are the conversions of args[0] and args[1]
FloatFinish(name, a0, a1, cur, r1, r2) ==
    LET x == ArithExtra(name, a0, a1, r2.ran, cur)
    IN IF r1.val = ErrorValue \/ r2.val = ErrorValue
         THEN Fail("arith", "Unable to convert object to Float", x)
       ELSE IF name = "div" /\ r2.val = FloatArg(0)
         THEN Fail("arith", "Division by 0 error.", x)
       ELSE /\ Return("arith", "value",
                  [x EXCEPT !.ret = FloatResult(name, r1.val, r2.val)])
            /\ UNCHANGED objvars
FloatOperator(name, a0, a1, cur, run) ==
    /\ CanExec
    /\ FloatFinish(name, a0, a1, cur,
                   convert_value2float(classes, instance, a0, cur, run),
                   convert_value2float(classes, instance, a1, cur, run))
operator_float_add(a0, a1, cur, run) == FloatOperator("add", a0, a1, cur, run)
operator_float_sub(a0, a1, cur, run) == FloatOperator("sub", a0, a1, cur, run)
operator_float_div(a0, a1, cur, run) == FloatOperator("div", a0, a1, cur, run)
operator_float_mul(a0, a1, cur, run) == FloatOperator("mul", a0, a1, cur, run)
operator_float_rem(a0, a1, cur, run) == FloatOperator("rem", a0, a1, cur, run)

(***************************************************************************)
(* List class                                                              *)
(***************************************************************************)
ListValue(l) == [kind |-> "List", n |-> l, s |-> "", hi |-> 0]
\* the sequences over S of length at most n
RECURSIVE SeqsUpTo(_, _)
SeqsUpTo(S, n) ==
    IF n = 0 THEN {<<>>}
    ELSE LET shorter == SeqsUpTo(S, n - 1)
         IN shorter \cup {Append(q, e) : q \in shorter, e \in S}

\* a list literal of the script: gravity_list_new and the stores of its items
vm_list_new(items) ==
    /\ CanExec
    /\ Len(list) < MaxList
    /\ list' = Append(list, items)
    /\ loop' = loop
    /\ core' = core
    /\ last' = [op |-> "list", f |-> NULL, res |-> "value", msg |-> "",
                x |-> [NoExtra EXCEPT !.ret = ListValue(Len(list) + 1)]]
    /\ UNCHANGED <<fiber, vmstate>>
    /\ UNCHANGED fibervars
    /\ UNCHANGED objvars

\* lines 1060-1068: the cursor after the Int cursor n of a list of count items
NextCursor_inclusive(n, count) ==
    IF n.hi = 0 /\ n.n + 1 <= count THEN IntArg(n.n + 1) ELSE BoolArg(FALSE)
NextCursor(n, count) ==
    IF n.hi = 0 /\ n.n + 1 < count THEN IntArg(n.n + 1) ELSE BoolArg(FALSE)

list_iterator(a0, a1) ==
    /\ CanExec
    /\ LET count == Len(list[a0.n])
           x == [NoExtra EXCEPT !.recv = a0, !.k = a1]
       IN IF count = 0
            THEN Return("iterate", "value", [x EXCEPT !.ret = BoolArg(FALSE)])
                 /\ UNCHANGED objvars
          ELSE IF VALUE_ISA_NULL(a1)
            THEN Return("iterate", "value", [x EXCEPT !.ret = IntArg(0)])
                 /\ UNCHANGED objvars
          ELSE IF a1.kind # "Int"
            THEN Fail("iterate", "Iterator expects a numeric value here.", x)
          ELSE Return("iterate", "value", [x EXCEPT !.ret = NextCursor(a1, count)])
               /\ UNCHANGED objvars

\* what array.at(index) yields for an index outside the array is not fixed
\* by the code: any of the values of StaleValues
StaleValues == {NullArg, IntArg(7)}
list_iterator_next(a0, a1) ==
    /\ CanExec
    /\ LET index == a1.n
           x == [NoExtra EXCEPT !.recv = a0, !.k = a1]
       IN /\ \E v \in IF index < Len(list[a0.n]) THEN {list[a0.n][index + 1]}
                       ELSE StaleValues :
               Return("iternext", "value", [x EXCEPT !.ret = v])
          /\ UNCHANGED objvars

\* strcmp(s1, s2) > 0 on the strings of the model, listed in byte order
StringOrder ==
    <<"", "0", "1", "2", "7", "false", "k", "null", "true", "undefined">>
Rank(str) == CHOOSE r \in 1..Len(StringOrder) : StringOrder[r] = str
list_default_number_compare(val1, val2) ==
    GreaterN(convert_value2float(classes, instance, val1, NoMember, ErrorValue).val,
             convert_value2float(classes, instance, val2, NoMember, ErrorValue).val)
list_default_string_compare(val1, val2) ==
    Rank(convert_value2string(classes, instance, val1, NoMember, ErrorValue).val.s)
        > Rank(convert_value2string(classes, instance, val2, NoMember, ErrorValue).val.s)
\* the truth value of what the predicate returned: lines 1151-1161
compare_values(result) ==
    convert_value2bool(classes, instance, result, NoMember, ErrorValue).val.n # 0

\* the for loop of partition, at index j; array[k] of the code is
\* array[k + 1] here and greater[<<a, b>>] the answer of the comparison
RECURSIVE PartitionLoop(_, _, _, _, _)
PartitionLoop(array, j, high, i, greater) ==
    IF j > high - 1 THEN [array |-> array, i |-> i]
    ELSE IF ~greater[<<array[j + 1], array[high + 1]>>]
      THEN PartitionLoop([array EXCEPT ![i + 2] = array[j + 1],
                                       ![j + 1] = array[i + 2]],
                         j + 1, high, i + 1, greater)
      ELSE PartitionLoop(array, j + 1, high, i, greater)
partition(array, low, high, greater) ==
    LET r == PartitionLoop(array, low, high, low - 1, greater)
    IN [array |-> [r.array EXCEPT ![r.i + 2] = r.array[high + 1],
                                  ![high + 1] = r.array[r.i + 2]],
        pi |-> r.i + 1]
RECURSIVE quicksort(_, _, _, _)
quicksort(array, low, high, greater) ==
    IF low < high
      THEN LET p == partition(array, low, high, greater)
           IN quicksort(quicksort(p.array, low, p.pi - 1, greater),
                        p.pi + 1, high, greater)
      ELSE array

\* the items in reverse, in place of the sorted ones
SortArray_reversed(array, nargs, a1, run) ==
    [k \in 1..Len(array) |-> array[Len(array) + 1 - k]]
\* lines 1197-1214 and 1236-1245: predicate or default callback, quicksort.
\* run[<<a, b>>] is what the predicate closure returns for a and b.
SortArray(array, nargs, a1, run) ==
    LET items == {array[k] : k \in 1..Len(array)}
        pairs == items \X items
        greater ==
            IF nargs >= 2 /\ a1.kind = "Closure"
              THEN [p \in pairs |-> compare_values(run[p])]
            ELSE IF array[1].kind \in {"Int", "Float"}
              THEN [p \in pairs |-> list_default_number_compare(p[1], p[2])]
            ELSE [p \in pairs |-> list_default_string_compare(p[1], p[2])]
    IN IF Len(array) > 1 THEN quicksort(array, 0, Len(array) - 1, greater)
       ELSE array

ListDone(op, x) ==
    /\ last' = [op |-> op, f |-> NULL, res |-> "value", msg |-> "", x |-> x]
    /\ loop' = loop
    /\ core' = core
    /\ UNCHANGED <<fiber, vmstate>>
    /\ UNCHANGED fibervars
    /\ UNCHANGED objvars

list_sort(a0, nargs, a1, run) ==
    /\ CanExec
    /\ list' = [list EXCEPT ![a0.n] = SortArray(@, nargs, a1, run)]
    /\ ListDone("sort", [NoExtra EXCEPT !.recv = a0, !.nargs = nargs, !.ret = a0])

list_sorted(a0, nargs, a1, run) ==
    /\ CanExec
    /\ Len(list) < MaxList + 1
    /\ list' = Append(list, SortArray(list[a0.n], nargs, a1, run))
    /\ ListDone("sorted", [NoExtra EXCEPT !.recv = a0, !.nargs = nargs,
                                          !.ret = ListValue(Len(list) + 1)])

(***************************************************************************)
(* Range class.  The bounds of a range and the loop counter are            *)
(* gravity_int_t, 64 bits, signed: four limbs of 16 bits, the most         *)
(* significant first.                                                      *)
(***************************************************************************)
RangeValue(from, to) == [kind |-> "Range", from |-> from, to |-> to]
LoopDone(op, res, msg, x) ==
    /\ last' = [op |-> op, f |-> NULL, res |-> res, msg |-> msg, x |-> x]
    /\ core' = core

\* range_loop up to its first test of the loop condition: lines 1555-1565
range_loop(a0, nargs, a1) ==
    /\ CanExec
    /\ ~loop.active
    /\ IF nargs < 2
         THEN Fail("loop", "Incorrect number of arguments.", NoExtra)
       ELSE IF a1.kind # "Closure"
         THEN Fail("loop", "Argument must be a Closure.", NoExtra)
       ELSE LET is_forward == Less64(a0.from, a0.to)
            IN /\ loop' = [active |-> TRUE, forward |-> is_forward,
                           from |-> a0.from, to |-> a0.to,
                           i |-> a0.from, closure |-> a1.s, t1 |-> now,
                           calls |-> <<>>, iter |-> loop.iter]
               /\ list' = list
               /\ LoopDone("loop_begin", "closure", "", NoExtra)
               /\ UNCHANGED <<fiber, vmstate>>
               /\ UNCHANGED fibervars
               /\ UNCHANGED objvars

\* ++i and --n overflow when the counter is at the end of the 64 bits; the
\* behaviour is undefined: the counter wraps around or the loop is left
StepsWrapOnly(forward, i) == {IF forward THEN Inc64(i) ELSE Dec64(i)}
Steps(forward, i) ==
    IF forward
      THEN (IF i = INT64_MAX THEN {Inc64(i), <<>>} ELSE {Inc64(i)})
      ELSE (IF i = INT64_MIN THEN {Dec64(i), <<>>} ELSE {Dec64(i)})

\* the loop test of range_loop holds
LoopTest_strict(l) ==
    /\ l.i # <<>>
    /\ IF l.forward THEN Less64(l.i, l.to) ELSE Less64(l.to, l.i)
LoopTest(l) ==
    /\ l.i # <<>>
    /\ IF l.forward THEN LessEq64(l.i, l.to) ELSE LessEq64(l.to, l.i)

\* one round of the while loop: the closure is run with the counter and
\* succeeds (ok) or fails; lines 1569-1573 and 1578-1582
range_loop_call(ok) ==
    /\ CanExec
    /\ loop.active
    /\ LoopTest(loop)
    /\ Len(loop.calls) < MaxCalls
    /\ list' = list
    /\ LET called == Append(loop.calls, loop.i)
       IN IF ok
            THEN /\ \E next \in Steps(loop.forward, loop.i) :
                       loop' = [loop EXCEPT !.calls = called, !.i = next]
                 /\ LoopDone("loop_call", "value", "", NoExtra)
                 /\ UNCHANGED <<fiber, vmstate>>
            ELSE /\ loop' = [loop EXCEPT !.calls = called, !.active = FALSE]
                 /\ LoopDone("loop", "error", "x", NoExtra)
                 /\ RETURN_ERROR("x")
    /\ UNCHANGED fibervars
    /\ UNCHANGED objvars

\* the loop test fails: lines 1584-1585
range_loop_return ==
    /\ CanExec
    /\ loop.active
    /\ ~LoopTest(loop)
    /\ loop' = [loop EXCEPT !.active = FALSE]
    /\ list' = list
    /\ LoopDone("loop", "value", "", [NoExtra EXCEPT !.ret = IntArg(now - loop.t1)])
    /\ UNCHANGED <<fiber, vmstate>>
    /\ UNCHANGED fibervars
    /\ UNCHANGED objvars

\* a + b and a - b on 64 bits, wrapping around
Add64(a, b) ==
    LET s4 == a[4] + b[4]
        s3 == a[3] + b[3] + s4 \div Limb
        s2 == a[2] + b[2] + s3 \div Limb
        s1 == a[1] + b[1] + s2 \div Limb
    IN <<s1 % Limb, s2 % Limb, s3 % Limb, s4 % Limb>>
Sub64(a, b) == Add64(a, Neg64(b))

\* line 1537: the distance between the bounds of the range
RangeSpan(r) ==
    IF Less64(r.from, r.to) THEN Sub64(r.to, r.from) ELSE Sub64(r.from, r.to)

\* range.count: line 1538 adds one to the distance; at the end of the 64 bits
\* the addition overflows and the behaviour is undefined: the sum wraps
\* around or no number is returned
range_count(a0) ==
    /\ CanExec
    /\ \E count \in Steps(TRUE, RangeSpan(a0)) :
          Return("count", "value",
                 [NoExtra EXCEPT !.recv = a0,
                                 !.ret = IF count = <<>> THEN ErrorValue
                                                         ELSE FromLimbs(count)])
    /\ UNCHANGED objvars

\* lines 1602-1614: the cursors that can follow the Int cursor n; ++n and
\* --n overflow at the end of the 64 bits, and then the counter wraps around
\* or the comparison that follows is taken as passed
NextRangeCursors(r, n) ==
    LET forward == Less64(r.from, r.to)
    IN {IF m = <<>> THEN BoolArg(FALSE)
        ELSE IF forward /\ Less64(r.to, m) THEN BoolArg(FALSE)
        ELSE IF ~forward /\ Less64(m, r.to) THEN BoolArg(FALSE)
        ELSE FromLimbs(m) : m \in Steps(forward, n)}

\* the history of the iteration after the iterator answered a1 with ret
Iterated(a0, a1, ret) ==
    IF VALUE_ISA_NULL(a1)
      THEN [NoIter EXCEPT !.range = a0, !.cursor = ret,
                          !.done = (ret = BoolArg(FALSE))]
    ELSE IF loop.iter.range = a0 /\ loop.iter.cursor = a1 /\ loop.iter.taken
      THEN [loop.iter EXCEPT !.cursor = ret, !.taken = FALSE,
                             !.done = (ret = BoolArg(FALSE))]
    ELSE NoIter

\* Range.iterate(cursor): lines 1588-1611
range_iterator(a0, a1) ==
    /\ CanExec
    /\ LET x == [NoExtra EXCEPT !.recv = a0, !.k = a1]
       IN IF ~Less64(a0.to, a0.from) /\ ~VALUE_ISA_NULL(a1) /\ a1.kind # "Int"
            THEN Fail("range_iterate", "Iterator expects a numeric value here.", x)
            ELSE /\ \E ret \in IF Less64(a0.to, a0.from) THEN {BoolArg(FALSE)}
                                ELSE IF VALUE_ISA_NULL(a1) THEN {FromLimbs(a0.from)}
                                ELSE NextRangeCursors(a0, Limbs(a1)) :
                        /\ loop' = [loop EXCEPT !.iter = Iterated(a0, a1, ret)]
                        /\ LoopDone("range_iterate", "value", "", [x EXCEPT !.ret = ret])
                 /\ list' = list
                 /\ UNCHANGED <<fiber, vmstate>>
                 /\ UNCHANGED fibervars
                 /\ UNCHANGED objvars

\* Range.next(cursor): lines 1613-1618
range_iterator_next(a0, a1) ==
    /\ CanExec
    /\ loop' = [loop EXCEPT !.iter =
                    IF loop.iter.range = a0 /\ loop.iter.cursor = a1
                          /\ ~loop.iter.taken /\ ~loop.iter.done
                      THEN [loop.iter EXCEPT !.taken = TRUE,
                                             !.seq = Append(@, a1)]
                      ELSE NoIter]
    /\ LoopDone("range_next", "value", "", [NoExtra EXCEPT !.recv = a0, !.k = a1, !.ret = a1])
    /\ list' = list
    /\ UNCHANGED <<fiber, vmstate>>
    /\ UNCHANGED fibervars
    /\ UNCHANGED objvars

(***************************************************************************)
(* String class: the iterator.  A string is iterated over its bytes, kept  *)
(* as numbers; behind the last byte lies the terminating 0.                *)
(***************************************************************************)
BytesValue(bytes) == [kind |-> "String", bytes |-> bytes]
\* the byte at s + index
ByteAt(bytes, index) == IF index < Len(bytes) THEN bytes[index + 1] ELSE 0

\* utf8_charbytes(s + index, 0): the length of the UTF-8 sequence that the
\* byte at index begins, 0 when it begins none
utf8_charbytes(bytes, index) ==
    LET c == ByteAt(bytes, index)
    IN IF c > 0 /\ c <= 127 THEN 1
       ELSE IF c >= 194 /\ c <= 223 THEN 2
       ELSE IF c >= 224 /\ c <= 239 THEN 3
       ELSE IF c >= 240 /\ c <= 244 THEN 4
       ELSE 0

\* lines 2757-2764: the cursor after the Int cursor index
NextStringCursor(bytes, index) ==
    IF index + 1 < Len(bytes)
      THEN IntArg(index + utf8_charbytes(bytes, index))
      ELSE BoolArg(FALSE)

\* String.iterate(cursor): lines 2741-2767
string_iterator(a0, a1) ==
    /\ CanExec
    /\ LET x == [NoExtra EXCEPT !.recv = a0, !.k = a1]
           len == Len(a0.bytes)
       IN IF len # 0 /\ ~VALUE_ISA_NULL(a1) /\ a1.kind # "Int"
            THEN Fail("string_iterate", "Iterator expects a numeric value here.", x)
            ELSE LET ret == IF len = 0 THEN BoolArg(FALSE)
                            ELSE IF VALUE_ISA_NULL(a1) THEN IntArg(0)
                            ELSE NextStringCursor(a0.bytes, a1.n)
                 IN /\ loop' = [loop EXCEPT !.iter = Iterated(a0, a1, ret)]
                    /\ LoopDone("string_iterate", "value", "", [x EXCEPT !.ret = ret])
                    /\ list' = list
                    /\ UNCHANGED <<fiber, vmstate>>
                    /\ UNCHANGED fibervars
                    /\ UNCHANGED objvars

\* String.next(cursor): lines 2769-2776; VALUE_FROM_STRING copies n bytes
string_iterator_next(a0, a1) ==
    /\ CanExec
    /\ LET index == a1.n
           n == utf8_charbytes(a0.bytes, index)
           ret == BytesValue(SubSeq(a0.bytes, index + 1, index + n))
       IN /\ loop' = [loop EXCEPT !.iter =
                          IF loop.iter.range = a0 /\ loop.iter.cursor = a1
                                /\ ~loop.iter.taken /\ ~loop.iter.done
                            THEN [loop.iter EXCEPT !.taken = TRUE,
                                                   !.seq = Append(@, ret)]
                            ELSE NoIter]
          /\ LoopDone("string_next", "value", "",
                      [NoExtra EXCEPT !.recv = a0, !.k = a1, !.ret = ret])
    /\ list' = list
    /\ UNCHANGED <<fiber, vmstate>>
    /\ UNCHANGED fibervars
    /\ UNCHANGED objvars

\* string_strnstr(original, sep, slen): the offset of the first occurrence
\* of sep in the bytes, -1 when there is none
Occurrences(bytes, sep) ==
    {i \in 0..(Len(bytes) - Len(sep)) : SubSeq(bytes, i + 1, i + Len(sep)) = sep}
string_strnstr(bytes, sep) ==
    IF Occurrences(bytes, sep) = {} THEN 0 - 1
    ELSE CHOOSE i \in Occurrences(bytes, sep) : \A j \in Occurrences(bytes, sep) : i <= j

\* lines 2672-2679: the loop that splits at every character
RECURSIVE SplitCharacters(_)
SplitCharacters(original) ==
    IF original = <<>> THEN <<>>
    ELSE LET n == utf8_charbytes(original, 0)
         IN <<BytesValue(SubSeq(original, 1, n))>>
                \o SplitCharacters(SubSeq(original, n + 1, Len(original)))

\* lines 2685-2696: the split loop
RECURSIVE SplitLoop(_, _)
SplitLoop(original, sep) ==
    LET p == string_strnstr(original, sep)
    IN IF p = 0 - 1 THEN <<BytesValue(original)>>
       ELSE <<BytesValue(SubSeq(original, 1, p))>>
               \o SplitLoop(SubSeq(original, p + Len(sep) + 1, Len(original)), sep)

\* String.split(separator): lines 2650-2699; the garbage collector is
\* disabled while the list is filled and enabled again before each return
string_split(a0, nargs, a1) ==
    /\ CanExec
    /\ LET x == [NoExtra EXCEPT !.recv = a0, !.k = a1, !.nargs = nargs]
       IN IF nargs # 2 \/ a1.kind # "String"
            THEN Fail("split", "String.split() expects 1 string separator.", x)
            ELSE /\ Len(list) < MaxList
                 /\ list' = Append(list, IF a1.bytes = <<>>
                                           THEN SplitCharacters(a0.bytes)
                                           ELSE SplitLoop(a0.bytes, a1.bytes))
                 /\ loop' = loop
                 /\ core' = core
                 /\ gcenabled' = TRUE
                 /\ last' = [op |-> "split", f |-> NULL, res |-> "value", msg |-> "",
                             x |-> [x EXCEPT !.ret = ListValue(Len(list) + 1)]]
                 /\ UNCHANGED <<fiber, vmstate>>
                 /\ UNCHANGED fibervars
                 /\ UNCHANGED <<classes, instance, context, nanon, cstack, starts>>

\* computed_property_create(vm, getter, setter): lines 3162-3170; with a
\* virtual machine the garbage collector is disabled while the closures of
\* the accessors are allocated and enabled again, without one it is not
\* touched
computed_property_create(vm, getter_func, setter_func) ==
    /\ CanExec
    /\ gcenabled' = IF vm THEN TRUE ELSE gcenabled
    /\ Return("property_create", "value",
              [NoExtra EXCEPT !.clo = getter_func, !.pre = setter_func, !.flag = vm])
    /\ UNCHANGED <<classes, instance, context, nanon, cstack, starts>>

(***************************************************************************)
(* The core shared by the virtual machines of the process.                 *)
(***************************************************************************)
\* a call of the host on the core leaves the virtual machine as it is
CoreDone(op) ==
    /\ last' = [op |-> op, f |-> NULL, res |-> "value", msg |-> "", x |-> NoExtra]
    /\ UNCHANGED <<fiber, vmstate, list, loop>>
    /\ UNCHANGED fibervars
    /\ UNCHANGED objvars

\* lines 3194-3543: the core classes are created unless core_inited is set
CoreInited(c) ==
    IF c.inited THEN c
    ELSE [c EXCEPT !.inited = TRUE, !.env = "valid", !.made = @ + 1]

\* lines 3546-3629: the classes are freed and the pointers reset when the
\* decremented count is 0
CoreFreed(c) ==
    IF ~c.inited THEN c
    ELSE LET count == Dec32(c.refcount)
         IN IF count # Count32(0)
              THEN [c EXCEPT !.refcount = count]
              ELSE [c EXCEPT !.refcount = count, !.env = "NULL", !.inited = FALSE]

gravity_core_init_call ==
    /\ core.made < MaxCore
    /\ core' = CoreInited(core)
    /\ CoreDone("core_init")

\* vm is NULL (""), a mini virtual machine or a full one
gravity_core_register(vm) ==
    /\ core.outstanding < MaxCore
    /\ core.made < MaxCore
    /\ LET c == CoreInited(core)
       IN core' = [c EXCEPT !.refcount = Inc32(@),
                            !.outstanding = @ + 1,
                            !.vms = IF vm \in {"", "mini"} THEN @ ELSE @ \cup {vm}]
    /\ CoreDone("core_register")

\* a free without a register to balance counts as nothing in the history
gravity_core_free ==
    /\ core.refcount[1] \notin 1..(65535 - MaxCore)
    /\ core.refcount[1] = 0 => core.refcount[2] <= MaxCore
    /\ core.refcount[1] = 65535 => core.refcount[2] > 65535 - MaxCore
    /\ LET c == CoreFreed(core)
       IN core' = [c EXCEPT !.outstanding = IF @ > 0 THEN @ - 1 ELSE 0,
                            !.vms = IF c.env = "NULL" THEN {} ELSE @]
    /\ CoreDone("core_free")

(***************************************************************************)
(* The interpreter around the natives.                                     *)
(***************************************************************************)
\* an error reported by a native reaches the interpreter loop: a fiber
\* resumed with try hands control back to its resumer, which is not failed;
\* otherwise the failure propagates and the run is aborted
vm_runtime_error ==
    /\ vmstate = "error"
    /\ LET f == vmfiber
       IN IF fiber[f].trying /\ fiber[f].caller # NULL
            THEN /\ vmfiber' = fiber[f].caller
                 /\ fiber' = [fiber EXCEPT ![f].caller = NULL, ![f].trying = FALSE]
                 /\ vmstate' = "run"
                 /\ Note(f, "aborted")
                 /\ Done("catch", f, "fiber")
            ELSE /\ vmstate' = "aborted"
                 /\ Note(f, "aborted")
                 /\ Done("raise", f, "error")
                 /\ UNCHANGED <<fiber, vmfiber>>
    /\ cstack' = <<>>
    /\ UNCHANGED <<created, now>>
    /\ UNCHANGED <<classes, instance, context, nanon, starts, gcenabled>>

\* the closure of the running fiber returns: its frame stack empties and
\* control goes back to the fiber that resumed it
vm_return ==
    /\ CanExec
    /\ cstack = <<>>
    /\ LET f == vmfiber
       IN IF fiber[f].caller = NULL
            THEN /\ fiber' = [fiber EXCEPT ![f].nframes = 0]
                 /\ vmstate' = "done"
                 /\ UNCHANGED vmfiber
            ELSE /\ fiber' = [fiber EXCEPT ![f].nframes = 0,
                                           ![f].caller = NULL, ![f].trying = FALSE]
                 /\ vmfiber' = fiber[f].caller
                 /\ UNCHANGED vmstate
    /\ Note(vmfiber, "terminated")
    /\ Done("return", vmfiber, "value")
    /\ UNCHANGED <<created, now>>
    /\ UNCHANGED objvars

\* time passes between two natives
Tick ==
    /\ vmstate = "run"
    /\ now < MaxTime
    /\ now' = now + 1
    /\ Done("tick", NULL, "value")
    /\ UNCHANGED <<fiber, created, vmfiber, vmstate, hist>>
    /\ UNCHANGED objvars

\* the state after the virtual machine is set up with the classes given,
\* the statics of the core being as given
InitOf(program, statics) ==
    /\ fiber = [f \in Fibers |-> gravity_fiber_new]
    /\ created = {MainFiber}
    /\ vmfiber = MainFiber
    /\ vmstate = "run"
    /\ now = 0
    /\ hist = [f \in Fibers |-> NoHist]
    /\ last = [op |-> "init", f |-> NULL, res |-> "value", msg |-> "", x |-> NoExtra]
    /\ classes = program
    /\ instance = <<>>
    /\ context = [cl \in Closures |-> NoValue]
    /\ nanon = 0
    /\ cstack = <<>>
    /\ starts = [c \in {Meta("A"), Meta("B")} |-> 0]
    /\ gcenabled = TRUE
    /\ list = <<>>
    /\ loop = NoLoop
    /\ core = statics

InitWith(program) == InitOf(program, OneVm)

Init == InitWith(gravity_core_init @@ UserClasses)

Next ==
    \/ \E arg \in {ClosureArg, NullArg} : fiber_create(arg)
    \/ \E f \in Fibers \ {MainFiber} : fiber_exec(f)
    \/ \E f \in Fibers \ {MainFiber} : fiber_try(f)
    \/ fiber_yield
    \/ \E arg \in WaitArgs : fiber_yield_time(arg)
    \/ \E arg \in AbortArgs : fiber_abort(arg)
    \/ vm_runtime_error
    \/ vm_return
    \/ Tick

Spec == Init /\ [][Next]_vars

\* the host runs another closure on the virtual machine after a run ended
vm_run_again ==
    /\ vmstate \in {"aborted", "done"}
    /\ fiber' = [f \in Fibers |-> gravity_fiber_new]
    /\ created' = {MainFiber}
    /\ vmfiber' = MainFiber
    /\ vmstate' = "run"
    /\ hist' = [f \in Fibers |-> NoHist]
    /\ cstack' = <<>>
    /\ Done("run", NULL, "value")
    /\ UNCHANGED <<now, classes, instance, context, nanon, starts, gcenabled>>

BindKeys == {"m", "k"}
Receivers ==
    {IntArg(0), ClassValue("Int"), ClassValue("A")}
        \cup {InstanceValue(i) : i \in 1..Len(instance)}
ContextArgs == {NoValue, IntArg(0)} \cup {InstanceValue(i) : i \in 1..Len(instance) \cap {1}}
NameArgs == {StringArg(k) : k \in BindKeys} \cup {NoValue}

NextBind ==
    \/ object_bind(IntArg(0), 2, NoValue, NoValue)
    \/ \E a1 \in NameArgs : object_bind(ClassValue("A"), 3, a1, NoValue)
    \/ \E recv \in Receivers, k \in BindKeys, cl \in UserClosures :
          object_bind(recv, 3, StringArg(k), ClosureValue(cl))
    \/ object_unbind(IntArg(0), 1, NoValue)
    \/ \E recv \in Receivers, a1 \in NameArgs : object_unbind(recv, 2, a1)
    \/ closure_bind(NoValue, 2, NoValue)
    \/ \E cl \in UserClosures :
          \/ closure_bind(ClosureValue(cl), 1, NoValue)
          \/ \E a1 \in ContextArgs : closure_bind(ClosureValue(cl), 2, a1)
    \/ \E nargs \in 1..2 : class_exec(Window(ClassValue("A")), nargs, NoValue)
    \/ class_exec(Window(ClassValue("Int")), 1, NoValue)
    \/ \E below \in {ClassValue("A"), NoValue} : class_exec(Window(IntArg(0)), 1, below)
    \/ vm_runtime_error
    \/ vm_run_again

SpecBind == Init /\ [][NextBind]_vars

\* the body of a static initializer returns: gravity_vm_runclosure gives
\* control back to the load or store that started it, which goes on
vm_closure_return ==
    /\ CanExec
    /\ cstack # <<>>
    /\ LET fr == cstack[Len(cstack)]
       IN /\ cstack' = SubSeq(cstack, 1, Len(cstack) - 1)
          /\ IF fr.op = "load"
               THEN LoadFinish(classes, fr.target, fr.key)
               ELSE StoreFinish(classes, fr.target, fr.key, fr.value)
    /\ UNCHANGED starts

Targets ==
    {ClassValue("A"), ClassValue("B")} \cup {InstanceValue(i) : i \in 1..Len(instance)}
LoadKeys == {StringArg("s"), StringArg("k"), IntArg(0)}
StoreValues == {IntArg(1)}

NextInit ==
    \/ \E target \in Targets, key \in LoadKeys : object_load(target, key)
    \/ \E target \in Targets, key \in LoadKeys, value \in StoreValues :
          object_store(target, key, value)
    \/ \E recv \in {ClassValue("A"), ClassValue("B")}, nargs \in 1..2 :
          class_exec(Window(recv), nargs, NoValue)
    \/ vm_closure_return
    \/ vm_runtime_error
    \/ vm_run_again

SpecInit == Init /\ [][NextInit]_vars

\* loads and stores on the class A and on the instances the program makes
AccessTargets == {ClassValue("A")} \cup {InstanceValue(i) : i \in 1..Len(instance)}
AccessKeys ==
    {IntArg(0), IntArg(1), WideIntArg(1, 0), StringArg("p"), StringArg("k"), NoValue}
AccessValues == {IntArg(1)} \cup {InstanceValue(i) : i \in 1..Len(instance)}

NextAccess ==
    \/ \E target \in AccessTargets, key \in AccessKeys : object_load(target, key)
    \/ \E target \in AccessTargets, key \in AccessKeys, value \in AccessValues :
          object_store(target, key, value)
    \/ class_exec(Window(ClassValue("A")), 2, NoValue)
    \/ vm_closure_return
    \/ vm_runtime_error
    \/ vm_run_again

SpecAccess == Init /\ [][NextAccess]_vars

\* stores of instances with value semantics (S) and with reference
\* semantics (A) into the slots of the class A and of instances; the slots
\* of a struct get integers only
StructTargets == {ClassValue("A")} \cup {InstanceValue(i) : i \in 1..Len(instance)}
StructKeys == {IntArg(0), StringArg("p"), StringArg("s")}
StructValues(target) ==
    IF target.kind = "Instance" /\ gravity_instance_isstruct(target.n)
      THEN {}
      ELSE {InstanceValue(i) : i \in 1..Len(instance)}

NextStruct ==
    \/ \E target \in StructTargets, key \in StructKeys :
          \E value \in StructValues(target) : object_store(target, key, value)
    \/ object_store(ClassValue("A"), IntArg(1), IntArg(1))
    \/ \E C \in {"A", "S"} : class_exec(Window(ClassValue(C)), 1, NoValue)
    \/ vm_closure_return
    \/ vm_runtime_error
    \/ vm_run_again

SpecStruct == Init /\ [][NextStruct]_vars

(***************************************************************************)
(* Loads through the default accessors, between stores.                    *)
(***************************************************************************)
GetterTargets == {ClassValue("A")} \cup {InstanceValue(i) : i \in 1..Len(instance)}
GetterKeys == {StringArg("p"), StringArg("s")}

NextGetter ==
    \/ \E target \in GetterTargets, key \in GetterKeys :
          \/ object_load(target, key)
          \/ object_store(target, key, IntArg(1))
    \/ object_load(ClassValue("A"), IntArg(1))
    \/ class_exec(Window(ClassValue("A")), 1, NoValue)
    \/ vm_closure_return
    \/ vm_runtime_error
    \/ vm_run_again

SpecGetter == Init /\ [][NextGetter]_vars

(***************************************************************************)
(* Construction with a register window: the caller wrote the first nargs   *)
(* registers, the others hold whatever an earlier call left there.         *)
(***************************************************************************)
CtorValues == {NoValue, IntArg(1), IntArg(7), StringArg("k")}
CtorWindows(recv) ==
    {[k \in 1..MaxArgs |-> IF k = 1 THEN recv ELSE w[k - 1]] :
        w \in [1..(MaxArgs - 1) -> CtorValues]}

NextCtor ==
    \/ \E C \in {"A", "B", "S"}, nargs \in 1..3 :
          \E args \in CtorWindows(ClassValue(C)) : class_exec(args, nargs, NoValue)
    \/ class_exec(Window(IntArg(0)), 1, NoValue)
    \/ \E i \in 1..Len(instance), key \in {IntArg(0), StringArg("p")} :
          object_load(InstanceValue(i), key)
    \/ vm_runtime_error
    \/ vm_run_again

SpecCtor == Init /\ [][NextCtor]_vars

(***************************************************************************)
(* The natives that switch the garbage collector off while they allocate,  *)
(* in a program that has a bridged class.                                  *)
(***************************************************************************)
SplitStrings == {BytesValue(<<>>), BytesValue(<<97, 44, 98>>), BytesValue(<<195, 169, 97>>)}
Separators == {BytesValue(<<>>), BytesValue(<<44>>), NoValue}

NextGc ==
    \/ \E recv \in {ClassValue("A"), ClassValue("X"), IntArg(0)}, k \in BindKeys :
          object_bind(recv, 3, StringArg(k), ClosureValue("c1"))
    \/ \E i \in 1..Len(instance) :
          object_bind(InstanceValue(i), 3, StringArg("m"), ClosureValue("c1"))
    \/ object_bind(ClassValue("A"), 2, NoValue, NoValue)
    \/ \E C \in {"A", "X"}, nargs \in 1..2 :
          class_exec(Window(ClassValue(C)), nargs, NoValue)
    \/ class_exec(Window(IntArg(0)), 1, NoValue)
    \/ \E a0 \in SplitStrings, a1 \in Separators, nargs \in 1..2 :
          string_split(a0, nargs, a1)
    \/ \E vm \in BOOLEAN, setter_func \in {"", "system_set"} :
          computed_property_create(vm, "system_get", setter_func)
    \/ vm_runtime_error
    \/ vm_run_again

InitGc == InitWith(gravity_core_init @@ UserClasses @@ BridgedClasses)

SpecGc == InitGc /\ [][NextGc]_vars

(***************************************************************************)
(* The host process: virtual machines come and go, and the host calls the  *)
(* functions of the core in any order.                                     *)
(***************************************************************************)
NextCore ==
    \/ gravity_core_init_call
    \/ \E vm \in {"", "mini", "vm", "vm2"} : gravity_core_register(vm)
    \/ gravity_core_free

InitCore == InitOf(gravity_core_init @@ UserClasses, NoCore)

SpecCore == InitCore /\ [][NextCore]_vars

(***************************************************************************)
(* Execution of function values with a register window.                    *)
(***************************************************************************)
NextFunc ==
    \/ \E fn \in {"f1", "f2", "f3"}, nargs \in 1..MaxArgs :
          \E args \in CtorWindows(FunctionValue(fn)) : function_exec(args, nargs)
    \/ function_exec(Window(IntArg(0)), 1)
    \/ vm_runtime_error
    \/ vm_run_again

SpecFunc == Init /\ [][NextFunc]_vars

(***************************************************************************)
(* Conversions of values, with classes that override a conversion method.  *)
(***************************************************************************)
ConvValues ==
    {IntArg(7), NullArg, UndefinedArg, StringArg("7"), ClassValue("A")}
        \cup {InstanceValue(i) : i \in 1..Len(instance)}
ConvClosures == {NoMember} \cup UserClosures
RunResults == {ErrorValue, IntArg(1), StringArg("k")}

NextConv ==
    \/ \E v \in ConvValues, cur \in ConvClosures, run \in RunResults :
          \/ convert_object_int(v, cur, run)
          \/ convert_object_float(v, cur, run)
          \/ convert_object_bool(v, cur, run)
          \/ convert_object_string(v, cur, run)
    \/ class_exec(Window(ClassValue("B")), 1, NoValue)
    \/ \E i \in 1..Len(instance), name \in {"Int", "Bool", "String"} :
          object_bind(InstanceValue(i), 3, StringArg(name), ClosureValue("c1"))
    \/ vm_runtime_error
    \/ vm_run_again

SpecConv == Init /\ [][NextConv]_vars

(***************************************************************************)
(* Conversions between Ints, Floats and strings of digits, one after the   *)
(* other, with no closure executing.                                       *)
(***************************************************************************)
RoundFloats == {int2double(v) : v \in {n \in RoundInts : "w" \notin DOMAIN n}}
RoundStrings == {StringArg(Text(c)) : c \in Numerals}

NextRound ==
    \/ \E v \in RoundInts \cup RoundStrings :
          convert_object_string(v, NoMember, ErrorValue)
    \/ \E v \in RoundInts \cup RoundFloats \cup RoundStrings :
          convert_object_int(v, NoMember, ErrorValue)
    \/ \E v \in {n \in RoundInts : "w" \notin DOMAIN n} \cup RoundFloats :
          convert_object_float(v, NoMember, ErrorValue)
    \/ \E v \in RoundInts \cup RoundStrings :
          convert_object_bool(v, NoMember, ErrorValue)

SpecRound == Init /\ [][NextRound]_vars

(***************************************************************************)
(* The binary operators of Int and Float on numbers and on values that     *)
(* have to be converted first.                                             *)
(***************************************************************************)
ArithInts == {IntArg(0), IntArg(1), IntArg(7)}
ArithFloats == {FloatArg(0), FloatArg(2), FromFrac(5, 2), FromFrac(23, 10)}
ArithValues ==
    {IntArg(0), IntArg(2), StringArg("7"), NullArg, ClassValue("A")} \cup ArithFloats

NextArith ==
    \/ \E a0 \in ArithInts, a1 \in ArithValues :
          \/ operator_int_add(a0, a1, NoMember, ErrorValue)
          \/ operator_int_sub(a0, a1, NoMember, ErrorValue)
          \/ operator_int_div(a0, a1, NoMember, ErrorValue)
          \/ operator_int_mul(a0, a1, NoMember, ErrorValue)
          \/ operator_int_rem(a0, a1, NoMember, ErrorValue)
          \/ operator_int_cmp(a0, a1, NoMember, ErrorValue)
    \/ \E a0 \in ArithFloats, a1 \in ArithValues :
          \/ operator_float_add(a0, a1, NoMember, ErrorValue)
          \/ operator_float_sub(a0, a1, NoMember, ErrorValue)
          \/ operator_float_div(a0, a1, NoMember, ErrorValue)
          \/ operator_float_mul(a0, a1, NoMember, ErrorValue)
          \/ operator_float_rem(a0, a1, NoMember, ErrorValue)
          \/ operator_float_cmp(a0, a1, NoMember, ErrorValue)
    \/ vm_runtime_error
    \/ vm_run_again

SpecArith == Init /\ [][NextArith]_vars

(***************************************************************************)
(* Compares, dispatched on the class of the first operand.                 *)
(***************************************************************************)
CmpValues ==
    {NullArg, UndefinedArg, IntArg(0), IntArg(7), BoolArg(FALSE), BoolArg(TRUE),
     FloatArg(0), StringArg(""), StringArg("7")}
        \cup {InstanceValue(i) : i \in 1..Len(instance)}

NextCmp ==
    \/ \E a1 \in CmpValues, run \in RunResults :
          \/ \E a0 \in {NullArg, UndefinedArg} : operator_null_cmp(a0, a1, NoMember, run)
          \/ \E a0 \in {IntArg(0), IntArg(7)} : operator_int_cmp(a0, a1, NoMember, run)
          \/ \E a0 \in {BoolArg(FALSE), BoolArg(TRUE)} :
                operator_bool_cmp(a0, a1, NoMember, run)
          \/ \E a0 \in {FloatArg(0), FloatArg(7)} :
                operator_float_cmp(a0, a1, NoMember, run)
    \/ class_exec(Window(ClassValue("B")), 1, NoValue)
    \/ \E i \in 1..Len(instance), name \in {"Int", "Float"} :
          object_bind(InstanceValue(i), 3, StringArg(name), ClosureValue("c1"))
    \/ vm_runtime_error
    \/ vm_run_again

SpecCmp == Init /\ [][NextCmp]_vars

(***************************************************************************)
(* Loads and stores of members between binds and unbinds.  A call of a     *)
(* class held in a member of an object reaches class_exec with the object  *)
(* in args[0] and the class in the register below.                         *)
(***************************************************************************)
MemberKeys == {StringArg("k"), StringArg("notfound")}
MemberTargets ==
    {ClassValue("A"), IntArg(0)} \cup {InstanceValue(i) : i \in 1..Len(instance)}

NextMember ==
    \/ \E target \in MemberTargets, key \in MemberKeys :
          \/ object_load(target, key)
          \/ object_store(target, key, IntArg(1))
          \/ object_notfound(target, key)
          \/ object_bind(target, 3, key, ClosureValue("c1"))
          \/ object_unbind(target, 2, key)
    \/ class_exec(Window(ClassValue("A")), 1, NoValue)
    \/ class_exec(Window(IntArg(0)), 1, ClassValue("Object"))
    \/ vm_closure_return
    \/ vm_runtime_error
    \/ vm_run_again

SpecMember == Init /\ [][NextMember]_vars

(***************************************************************************)
(* Iteration over lists.                                                   *)
(***************************************************************************)
ListItems == {IntArg(1), IntArg(2)}
Lists == {ListValue(l) : l \in 1..Len(list)}
Cursors == {NullArg, UndefinedArg, StringArg("k"), WideIntArg(1, 0)}
               \cup {IntArg(i) : i \in 0..MaxLen}

NextIter ==
    \/ \E items \in SeqsUpTo(ListItems, MaxLen) : vm_list_new(items)
    \/ \E a0 \in Lists, a1 \in Cursors : list_iterator(a0, a1)
    \/ \E a0 \in Lists, i \in 0..MaxLen : list_iterator_next(a0, IntArg(i))
    \/ vm_runtime_error
    \/ vm_run_again

SpecIter == Init /\ [][NextIter]_vars

(***************************************************************************)
(* Loops over ranges.                                                      *)
(***************************************************************************)
RangeBounds == {Int64(0), Int64(1), Int64(2), Dec64(INT64_MAX), INT64_MAX, INT64_MIN}
Ranges == {RangeValue(from, to) : from \in RangeBounds, to \in RangeBounds}

NextLoop ==
    \/ range_loop(RangeValue(Int64(0), Int64(0)), 1, NoValue)
    \/ range_loop(RangeValue(Int64(0), Int64(0)), 2, NoValue)
    \/ \E a0 \in Ranges : range_loop(a0, 2, ClosureValue("c1"))
    \/ \E ok \in BOOLEAN : range_loop_call(ok)
    \/ range_loop_return
    \/ Tick
    \/ vm_runtime_error
    \/ vm_run_again

SpecLoop == Init /\ [][NextLoop]_vars

(***************************************************************************)
(* Iteration over ranges, next to their loops: a for statement calls the   *)
(* iterator with null and then with the cursor it got, and takes the value *)
(* of each cursor in between.                                              *)
(***************************************************************************)
\* an ascending range, one of a single element, a descending one, and
\* one that ends at the last number of the 64 bits
IterRanges ==
    {RangeValue(Int64(0), Int64(2)), RangeValue(Int64(1), Int64(1)),
     RangeValue(Int64(2), Int64(0)), RangeValue(Dec64(INT64_MAX), INT64_MAX)}
\* the iteration in progress can go on
Iterating == loop.iter.range # <<>> /\ ~loop.iter.done /\ Len(loop.iter.seq) < MaxCalls

NextRange ==
    \/ \E a0 \in IterRanges : range_iterator(a0, NullArg)
    \/ Iterating /\ ~loop.iter.taken /\ range_iterator_next(loop.iter.range, loop.iter.cursor)
    \/ Iterating /\ loop.iter.taken /\ range_iterator(loop.iter.range, loop.iter.cursor)
    \/ range_iterator(RangeValue(Int64(0), Int64(1)), StringArg("k"))
    \/ \E a0 \in IterRanges : range_count(a0)
    \/ \E a0 \in IterRanges : range_loop(a0, 2, ClosureValue("c1"))
    \/ range_loop_call(TRUE)
    \/ range_loop_return
    \/ vm_runtime_error
    \/ vm_run_again

SpecRange == Init /\ [][NextRange]_vars

(***************************************************************************)
(* Iteration over strings: "", "ab", "\u00e9", "a\u00e9", "\u00e9a" and  *)
(* "\u20ac" in UTF-8.                                                       *)
(***************************************************************************)
IterStrings ==
    {BytesValue(<<>>), BytesValue(<<97, 98>>), BytesValue(<<195, 169>>),
     BytesValue(<<97, 195, 169>>), BytesValue(<<195, 169, 97>>),
     BytesValue(<<226, 130, 172>>)}

NextString ==
    \/ \E a0 \in IterStrings : string_iterator(a0, NullArg)
    \/ Iterating /\ ~loop.iter.taken
                 /\ string_iterator_next(loop.iter.range, loop.iter.cursor)
    \/ Iterating /\ loop.iter.taken
                 /\ string_iterator(loop.iter.range, loop.iter.cursor)
    \/ \E a0 \in IterStrings, a1 \in {StringArg("k"), IntArg(0), IntArg(1)} :
          string_iterator(a0, a1)
    \/ \E a0 \in IterStrings, index \in 0..2 :
          index < Len(a0.bytes) /\ string_iterator_next(a0, IntArg(index))
    \/ vm_runtime_error
    \/ vm_run_again

SpecString == Init /\ [][NextString]_vars

(***************************************************************************)
(* Sorting of lists.  The closure passed as predicate answers a pair of    *)
(* items with a value; without it the default comparison is used.          *)
(***************************************************************************)
SortItems == {IntArg(0), IntArg(1), IntArg(2), FloatArg(1)}
WideItems == {Pow53, WideIntArg(Pow21, 1), WideIntArg(Pow21, 2)}
SortLists == SeqsUpTo(SortItems, MaxLen) \cup SeqsUpTo(WideItems, 2)
                \cup {<<StringArg("k"), IntArg(1)>>}
\* the predicates: a > b, and one that answers everything with Null
Predicates(array) ==
    LET pairs == {array[k] : k \in 1..Len(array)} \X {array[k] : k \in 1..Len(array)}
    IN {[p \in pairs |-> BoolArg(GreaterN(p[1], p[2]))], [p \in pairs |-> NullArg]}

NextSort ==
    \/ \E items \in SortLists : vm_list_new(items)
    \/ \E a0 \in Lists :
          \/ list_sort(a0, 1, NoValue, <<>>)
          \/ list_sorted(a0, 1, NoValue, <<>>)
          \/ \E run \in Predicates(list[a0.n]) :
                \/ list_sort(a0, 2, ClosureValue("c1"), run)
                \/ list_sorted(a0, 2, ClosureValue("c1"), run)
    \/ vm_return
    \/ vm_run_again

SpecSort == Init /\ [][NextSort]_vars

(***************************************************************************)
(* Fibers that resume fibers: the scheduler alone, with more fibers and    *)
(* a clock that stands still.                                              *)
(***************************************************************************)
NextChain ==
    \/ \E arg \in {ClosureArg, NullArg} : fiber_create_in(0..MaxChain, arg)
    \/ \E f \in Fibers \ {MainFiber} : fiber_exec(f)
    \/ \E f \in Fibers \ {MainFiber} : fiber_try(f)
    \/ fiber_yield
    \/ \E arg \in WaitArgs : fiber_yield_time(arg)
    \/ \E arg \in AbortArgs : fiber_abort(arg)
    \/ vm_runtime_error
    \/ vm_return

SpecChain == Init /\ [][NextChain]_vars

(***************************************************************************)
(* Properties of the fiber scheduler                                       *)
(***************************************************************************)
IsResume == last'.op \in {"call", "try"}
IsYield == last'.op \in {"yield", "yieldWaitTime"}
Resumable(f) ==
    ~(fiber[f].timewait > 0 /\ now - fiber[f].lasttime < fiber[f].timewait)

\* C1: call(f) or try(f) on a fiber whose caller is already set fails with
\* the error "Fiber has already been called." and leaves f.caller, f.status,
\* f.trying and the currently executing fiber unchanged.
DoubleResumeRejected ==
    [][(IsResume /\ fiber[last'.f].caller # NULL) =>
         LET f == last'.f
         IN /\ last'.res = "error"
            /\ vmstate' = "error"
            /\ fiber'[vmfiber].error = <<"Fiber has already been called.">>
            /\ fiber'[f].caller = fiber[f].caller
            /\ fiber'[f].status = fiber[f].status
            /\ fiber'[f].trying = fiber[f].trying
            /\ vmfiber' = vmfiber]_vars

DoubleResumeSeen ==
    /\ last.op \in {"call", "try"}
    /\ last.res = "error"
    /\ fiber[last.f].caller # NULL
    /\ fiber[vmfiber].error = <<"Fiber has already been called.">>

\* C2: for every fiber f, a non-null caller implies that the status is
\* Running or Trying, and a fiber suspended by a yield has no caller.
FiberInvariant ==
    \A f \in Fibers :
        /\ fiber[f].caller # NULL => fiber[f].status \in {FIBER_RUNNING, FIBER_TRYING}
        /\ hist[f].ev = "yielded" => fiber[f].caller = NULL

FiberYieldedSeen ==
    \E f \in created :
        /\ hist[f].ev = "yielded"
        /\ fiber[f].status \in {FIBER_RUNNING, FIBER_TRYING}
        /\ fiber[f].caller = NULL
        /\ vmfiber # f

\* C3: call(f) (resp. try(f)) on a fiber with no caller and no pending
\* delay sets f.caller to the fiber that was executing, f.status to Running
\* (resp. Trying), f.trying to false (resp. true) and makes f the
\* currently executing fiber.
ResumeTransfersControl ==
    [][(IsResume /\ fiber[last'.f].caller = NULL /\ Resumable(last'.f)) =>
         LET f == last'.f
             is_trying == last'.op = "try"
         IN /\ fiber'[f].caller = vmfiber
            /\ fiber'[f].status = IF is_trying THEN FIBER_TRYING ELSE FIBER_RUNNING
            /\ fiber'[f].trying = is_trying
            /\ vmfiber' = f]_vars

ResumeSeen ==
    /\ last.op = "try"
    /\ last.res = "fiber"
    /\ vmfiber = last.f
    /\ fiber[vmfiber].caller = MainFiber
    /\ fiber[vmfiber].trying

\* C4: yield() or yieldWaitTime(d) executed by a fiber f that has a caller
\* makes the caller, which is the fiber that most recently resumed f, the
\* currently executing fiber and clears f.caller and f.trying, so that f has
\* no owner and can be resumed again.
YieldReturnsToResumer ==
    [][(IsYield /\ fiber[vmfiber].caller # NULL) =>
         LET f == vmfiber
         IN /\ vmfiber' = fiber[f].caller
            /\ vmfiber' = hist[f].by
            /\ fiber'[f].caller = NULL
            /\ fiber'[f].trying = FALSE]_vars

YieldSeen ==
    /\ last.op \in {"yield", "yieldWaitTime"}
    /\ last.res = "fiber"
    /\ vmfiber # last.f
    /\ fiber[last.f].caller = NULL

\* C5: yield() executed while the currently executing fiber has no caller
\* changes neither the currently executing fiber nor any field of it
\* (caller, trying, status, minimum-resume delay, last-resume timestamp).
YieldWithoutCallerIsNoop ==
    [][(last'.op = "yield" /\ fiber[vmfiber].caller = NULL) =>
         /\ vmfiber' = vmfiber
         /\ fiber'[vmfiber].caller = fiber[vmfiber].caller
         /\ fiber'[vmfiber].trying = fiber[vmfiber].trying
         /\ fiber'[vmfiber].status = fiber[vmfiber].status
         /\ fiber'[vmfiber].timewait = fiber[vmfiber].timewait
         /\ fiber'[vmfiber].lasttime = fiber[vmfiber].lasttime]_vars

AbortRecordsMessage ==
    (last'.op = "abort" /\ last'.msg # "") =>
        /\ fiber'[vmfiber].error = <<last'.msg>>
        /\ vmfiber' = vmfiber

AbortCaughtAtTry ==
    (last.op = "abort" /\ last.msg # "" /\ fiber[vmfiber].trying) =>
        \A f \in Fibers : f = vmfiber =>
           /\ last'.op = "catch"
           /\ fiber'[f].error = <<last.msg>>
           /\ fiber_status(f)' = FIBER_ABORTED_WITH_ERROR
           /\ fiber_done(f)'
           /\ vmfiber' = hist[f].by
           /\ vmfiber' # f
           /\ vmstate' = "run"
           /\ fiber'[vmfiber'].error = NoError

TryCatchesAbort ==
    [][AbortRecordsMessage /\ AbortCaughtAtTry]_vars

TryCatchesAbortSeen ==
    /\ last.op = "catch"
    /\ fiber[last.f].error = <<"x">>
    /\ fiber[last.f].status = FIBER_TRYING
    /\ vmfiber = MainFiber

\* C23: once a fiber f is terminated or aborted with error, no later
\* call(f), try(f), yield or yieldWaitTime makes f the currently executing
\* fiber or a Running or Trying one again: isDone(f) stays true and status(f)
\* keeps reporting the same terminal code, 1 or 2.
TerminalStatesAbsorbing ==
    [][\A f \in created :
          (fiber_done(f) /\ (IsResume \/ IsYield)) =>
             /\ fiber_done(f)'
             /\ fiber_status(f)' = fiber_status(f)
             /\ fiber_status(f)' \in {FIBER_ABORTED_WITH_ERROR, FIBER_TERMINATED}
             /\ (vmfiber' = f => vmfiber = f)]_vars

\* the part of C23 that the code keeps: isDone and the code reported by
\* status do not change once a fiber is terminated or aborted
TerminalStatusKept ==
    [][\A f \in created :
          fiber_done(f) =>
             /\ fiber_done(f)'
             /\ fiber_status(f)' = fiber_status(f)
             /\ fiber_status(f)' \in {FIBER_ABORTED_WITH_ERROR, FIBER_TERMINATED}]_vars

\* the fibers met when the caller references are followed from f, f first
RECURSIVE CallerChain(_, _)
CallerChain(f, steps) ==
    IF steps = 0 \/ fiber[f].caller = NULL THEN <<f>>
    ELSE <<f>> \o CallerChain(fiber[f].caller, steps - 1)

\* the fibers that are direct or transitive callers of f
Callers(f) ==
    LET chain == CallerChain(f, Cardinality(Fibers))
    IN {chain[k] : k \in 2..Len(chain)}

\* C24: in every reachable state the caller references followed from the
\* currently executing fiber reach the root fiber without visiting a fiber
\* twice: the currently executing fiber is the root fiber or has a caller,
\* and no fiber is its own direct or transitive caller.
CallerChainReachesRoot ==
    LET chain == CallerChain(vmfiber, Cardinality(Fibers))
    IN /\ vmfiber = MainFiber \/ fiber[vmfiber].caller # NULL
       /\ chain[Len(chain)] = MainFiber
       /\ \A j, k \in 1..Len(chain) : chain[j] = chain[k] => j = k
       /\ \A f \in Fibers : f \notin Callers(f)

\* a fiber resumed by a fiber that the root fiber resumed is executing
CallerChainSeen ==
    /\ vmfiber # MainFiber
    /\ fiber[vmfiber].caller \notin {NULL, MainFiber}
    /\ fiber[fiber[vmfiber].caller].caller = MainFiber
    /\ last.op \in {"call", "try"}

(***************************************************************************)
(* Properties of bind and unbind                                           *)
(***************************************************************************)
\* the built-in classes and their metaclasses, by identifier
BuiltinClass(c) == c.name \in CoreNames /\ ~gravity_class_is_anon(c)
TablesOf(cl) == [c \in DOMAIN cl |-> cl[c].htable]

\* C8: bind(name, closure) on a receiver whose class is a built-in core class
\* or the metaclass of one fails with an error, creates no anonymous class,
\* leaves the class pointer of the receiver unchanged and adds no entry to
\* any method table.
BindOnCoreClassFails ==
    [][(last'.op = "bind"
          /\ last'.x.recv # NoValue
          /\ BuiltinClass(GetClass(classes, instance, last'.x.recv))) =>
         /\ last'.res = "error"
         /\ vmstate' = "error"
         /\ fiber'[vmfiber].error # NoError
         /\ nanon' = nanon
         /\ DOMAIN classes' = DOMAIN classes
         /\ GetClass(classes', instance', last'.x.recv)
              = GetClass(classes, instance, last'.x.recv)
         /\ TablesOf(classes') = TablesOf(classes)]_vars

\* a well-formed bind on the class Int, whose class is the metaclass of Int,
\* was rejected as a bind on a core class
BindOnCoreClassSeen ==
    /\ last.op = "bind"
    /\ last.res = "error"
    /\ last.msg = "Unable to bind method to a Gravity core class."
    /\ last.x.recv = ClassValue("Int")
    /\ GetClass(classes, instance, last.x.recv) = Meta("Int")
    /\ nanon = 0

\* the unbind step that directly follows a successful bind of the same name
\* on the same instance
UnbindAfterBind ==
    /\ last.op = "bind"
    /\ last.res = "novalue"
    /\ last.x.recv.kind = "Instance"
    /\ last'.op = "unbind"
    /\ last'.res = "novalue"
    /\ last'.x.recv = last.x.recv
    /\ last'.x.key = last.x.key

\* C9: after bind(name, c) on an instance x followed by unbind(name) on x,
\* name is no longer in the method table of the class of x, a lookup of name
\* on x gives what the original class chain of x gave before the bind, the
\* context of c is null, and the unbind changed no other closure's context
\* and no other class's method table.
UnbindRestoresLookup ==
    [][UnbindAfterBind =>
         LET x == last.x.recv
             name == last.x.key
             c == GetClass(classes', instance', x)
         IN /\ c = GetClass(classes, instance, x)
            /\ gravity_class_is_anon(c)
            /\ name \notin DOMAIN classes'[c].htable
            /\ gravity_class_lookup(classes', c, name) = last.x.pre
            /\ context'[last.x.clo] = NoValue
            /\ \A cl \in Closures \ {last.x.clo} : context'[cl] = context[cl]
            /\ DOMAIN classes' = DOMAIN classes
            /\ \A d \in DOMAIN classes \ {c} :
                  classes'[d].htable = classes[d].htable]_vars

\* an unbind undid the bind of a closure that had a context, over a member
\* the original class of the instance defines
UnbindRestoresLookupSeen ==
    /\ last.op = "unbind"
    /\ last.res = "novalue"
    /\ last.x.recv.kind = "Instance"
    /\ last.x.clo \in UserClosures
    /\ last.x.ret # NoValue
    /\ context[last.x.clo] = NoValue
    /\ gravity_class_is_anon(GetClass(classes, instance, last.x.recv))
    /\ gravity_class_lookup(classes, GetClass(classes, instance, last.x.recv),
                            last.x.key) = "A_m"

\* the method tables of the built-in core classes and of their metaclasses
CoreTables(cl) ==
    [c \in {d \in DOMAIN cl : BuiltinClass(d)} |-> cl[c].htable]

\* the closures stored in these tables that carry a context
CoreContexts(cl, ctx) ==
    {<<c, k>> \in {<<d, j>> \in (DOMAIN cl) \X {"notfound", "bind", "exec", "loop"} :
                      BuiltinClass(d) /\ j \in DOMAIN cl[d].htable} :
         ctx[cl[c].htable[k]] # NoValue}

\* C25: no bind and no unbind, on whatever receiver, adds, removes or
\* replaces an entry of the method table of a built-in core class or of its
\* metaclass, or clears the context of a closure stored in such a table.
CoreClassesNeverModified ==
    [][last'.op \in {"bind", "unbind"} =>
          /\ CoreTables(classes') = CoreTables(classes)
          /\ CoreContexts(classes, context) \subseteq CoreContexts(classes, context')]_vars

\* the part of C25 that the code keeps: no bind changes the table of a core
\* class or of its metaclass
CoreClassesKeptByBind ==
    [][last'.op = "bind" => CoreTables(classes') = CoreTables(classes)]_vars

(***************************************************************************)
(* Properties of the static initializer                                    *)
(***************************************************************************)
\* the class C has a static initializer: the constructor name resolves on
\* the metaclass of C
HasInitializer(C) ==
    gravity_class_lookup_constructor(classes, MetaOf(ClassValue(C))) # NoMember
\* the last operation was a load, a store or a construction on the class C
UsedClass(C) ==
    /\ last.op \in {"load", "store", "construct", "init_start"}
    /\ last.res # "error"
    /\ last.x.recv = ClassValue(C)

\* the static initializer of a metaclass is never started a second time
InitializerNeverRestarted == \A m \in DOMAIN starts : starts[m] <= 1
\* is_inited is set before the body of the initializer runs
InitedBeforeBody == \A i \in 1..Len(cstack) : classes[cstack[i].meta].is_inited
\* the first load or store on a class starts its initializer
InitializerStartedByAccess ==
    \A C \in {"A", "B"} :
        (UsedClass(C) /\ last.op # "construct" /\ HasInitializer(C))
            => starts[MetaOf(ClassValue(C))] = 1

\* C10: under any sequence of loads and stores on a class C (re-entrant ones
\* from inside the initializer included) and of constructions of C, the
\* static initializer of the metaclass of C is started exactly once: it is
\* started by the first use, is_inited is set before its body runs, and it
\* is never started a second time.
StaticInitializerExactlyOnce ==
    /\ InitializerNeverRestarted
    /\ InitedBeforeBody
    /\ \A C \in {"A", "B"} :
          (UsedClass(C) /\ HasInitializer(C)) => starts[MetaOf(ClassValue(C))] = 1

(***************************************************************************)
(* Properties of load and store                                            *)
(***************************************************************************)
\* the ivar slots of all instances and classes
Slots(cl, inst) ==
    <<[i \in 1..Len(inst) |-> inst[i].ivars], [c \in DOMAIN cl |-> cl[c].ivars]>>
\* a load or a store with an integer key ended in this step
IntKeyAccess == last'.op \in {"load", "store"} /\ last'.x.k.kind = "Int"
\* the key, an integer of 64 bits, is a slot index of the class of the target
InBounds(k, target) ==
    /\ k.hi = 0
    /\ k.n >= 0
    /\ k.n < classes[GetClass(classes, instance, target)].nivars

\* C11: load and store with an integer key k succeed only if 0 <= k < nivars
\* of the class of the target; for every other k they return an
\* out-of-bounds error and no ivar slot is read or written.
IntKeyBoundsChecked ==
    [][IntKeyAccess =>
         IF InBounds(last'.x.k, last'.x.recv)
           THEN last'.res # "error"
           ELSE /\ last'.res = "error"
                /\ Slots(classes', instance') = Slots(classes, instance)]_vars

\* a store wrote an instance value into a slot in this step, through an
\* integer key or through a default accessor
SlotStoreOfInstance ==
    /\ last'.op = "store"
    /\ last'.res = "novalue"
    /\ last'.x.ret.kind = "Instance"
    /\ LET c == GetClass(classes', instance, last'.x.recv)
           obj == gravity_class_lookup(classes', c, last'.x.key)
       IN \/ last'.x.k.kind = "Int"
          \/ /\ last'.x.k.kind = "String"
             /\ obj # NoMember
             /\ FUNCTION_ISA_SPECIAL(Function(obj))
             /\ FUNCTION_ISA_DEFAULT_SETTER(Function(obj))
\* what the slot written by the store of this step holds after it
WrittenSlot ==
    LET c == GetClass(classes', instance, last'.x.recv)
        i == IF last'.x.k.kind = "Int"
               THEN last'.x.k.n
               ELSE Function(gravity_class_lookup(classes', c, last'.x.key)).index
    IN IF last'.x.recv.kind = "Instance"
         THEN instance'[last'.x.recv.n].ivars[i + 1]
         ELSE classes'[c].ivars[i + 1]

\* C12: a store, through an integer key or a default accessor, of a value v
\* that is a struct instance puts a fresh clone of v into the slot: the slot
\* holds a new instance, not v, with the slots of v, and v is not changed;
\* for every other instance value the slot holds v itself.
StructStoredByClone ==
    [][SlotStoreOfInstance =>
         LET v == last'.x.ret
         IN IF classes[instance[v.n].objclass].is_struct
              THEN /\ WrittenSlot.kind = "Instance"
                   /\ WrittenSlot.n \notin 1..Len(instance)
                   /\ WrittenSlot.n \in 1..Len(instance')
                   /\ instance'[WrittenSlot.n] = instance[v.n]
                   /\ instance'[v.n] = instance[v.n]
              ELSE /\ WrittenSlot = v
                   /\ Len(instance') = Len(instance)]_vars

\* both kinds of store have happened: the static slot of A holds a clone of
\* the struct instance 1, stored through the default accessor
StructStoredByCloneSeen ==
    /\ last.op = "store"
    /\ last.res = "novalue"
    /\ last.x.key = "s"
    /\ last.x.ret = InstanceValue(1)
    /\ Len(instance) = 2
    /\ instance[1].objclass = Cls("S")
    /\ classes[Meta("A")].ivars[1] = InstanceValue(2)

(***************************************************************************)
(* Properties of construction                                              *)
(***************************************************************************)
\* class_exec handed a constructor that declares more parameters than the
\* call supplied to the interpreter in this step
ConstructorShortOfArgs ==
    /\ last'.op = "construct"
    /\ last'.res = "closure"
    /\ last'.x.args # <<>>
    /\ last'.x.nargs < nparams(last'.x.clo)

\* C13: when a class is constructed with fewer arguments than its
\* constructor declares, the window handed to the constructor has Undefined
\* in every missing parameter slot, the value the caller wrote in every
\* supplied slot, and the newly allocated instance in slot 0.
MissingArgsUndefined ==
    [][ConstructorShortOfArgs =>
         LET x == last'.x
             np == nparams(x.clo)
         IN /\ Len(x.args) >= np
            /\ \A k \in 1..Len(x.args) :
                  /\ (k - 1 >= x.nargs /\ k - 1 < np) => x.args[k] = UndefinedArg
                  /\ (k - 1 >= 1 /\ k - 1 < x.nargs) => x.args[k] = x.win[k]
            /\ x.args[1].kind = "Instance"
            /\ x.args[1].n \notin 1..Len(instance)
            /\ x.args[1].n \in 1..Len(instance')
            /\ instance'[x.args[1].n].objclass = Cls(x.recv.s)]_vars

\* A's constructor (self and two parameters) was called with one argument
\* while the register of the second parameter held a stale value
MissingArgsUndefinedSeen ==
    /\ last.op = "construct"
    /\ last.res = "closure"
    /\ last.x.clo = "A_init"
    /\ last.x.nargs = 2
    /\ last.x.win = <<ClassValue("A"), IntArg(1), IntArg(7)>>
    /\ last.x.args = <<InstanceValue(1), IntArg(1), UndefinedArg>>

\* a function value was executed with fewer arguments than it declares
FunctionShortOfArgs ==
    /\ last'.op = "function_exec"
    /\ last'.res = "closure"
    /\ last'.x.nargs < func_nparams(last'.x.clo)

\* C28: when a function value is executed with fewer arguments than it
\* declares, every supplied slot args[0..nargs-1] keeps its value and every
\* missing slot args[nargs..nparams-1] is set to Undefined.
FunctionDefaultsUndefined ==
    [][FunctionShortOfArgs =>
         LET x == last'.x
             np == func_nparams(x.clo)
         IN \A k \in 1..Len(x.args) :
               /\ (k - 1 < x.nargs => x.args[k] = x.win[k])
               /\ ((k - 1 >= x.nargs /\ k - 1 < np) => x.args[k] = UndefinedArg)]_vars

\* the part of C28 that the code keeps: the claim holds when only self is
\* supplied
FunctionDefaultsUndefinedAfterSelf ==
    [][(FunctionShortOfArgs /\ last'.x.nargs = 1) =>
         LET x == last'.x
             np == func_nparams(x.clo)
         IN \A k \in 1..Len(x.args) :
               /\ (k - 1 < x.nargs => x.args[k] = x.win[k])
               /\ ((k - 1 >= x.nargs /\ k - 1 < np) => x.args[k] = UndefinedArg)]_vars

(***************************************************************************)
(* Properties of the garbage collector switch                              *)
(***************************************************************************)
\* this step is one of the natives that disable the garbage collector
DisablesGc == last'.op \in {"bind", "construct", "split", "property_create"}

\* C29: bind, the construction of an instance, String.split and
\* computed_property_create enable the garbage collector again before they
\* return, on every exit path, error returns included: the switch is after
\* the operation as it was before.
GcStateRestored ==
    [][DisablesGc => gcenabled' = gcenabled]_vars

\* the part of C29 that the code keeps: the garbage collector is left
\* disabled only by the failed construction of a bridged class
GcRestoredButBridgeError ==
    [][(DisablesGc /\ gcenabled /\ ~gcenabled') =>
          /\ last'.op = "construct"
          /\ last'.res = "error"
          /\ last'.x.recv = ClassValue("X")
          /\ last'.x.nargs # 1]_vars

(***************************************************************************)
(* Properties of the shared core                                           *)
(***************************************************************************)
\* the core classes are there: the pointers are set and core_inited is true
CoreValid(c) == c.inited /\ c.env = "valid"

\* C30: for any sequence of calls of gravity_core_init,
\* gravity_core_register and gravity_core_free the core classes are created
\* only once while in use, stay valid as long as a register is not yet
\* balanced by a free, are freed and reset to NULL exactly by the free that
\* balances the last outstanding register, the count never wraps below
\* zero, and a register after that creates them again.
CoreSharedByCount ==
    [][/\ (CoreValid(core) => core'.made = core.made)
        /\ (core'.outstanding > 0 => CoreValid(core'))
        /\ ((last'.op = "core_free" /\ core.outstanding = 1) =>
               (~core'.inited /\ core'.env = "NULL"))
        /\ ((CoreValid(core) /\ ~CoreValid(core')) =>
               (last'.op = "core_free" /\ core.outstanding = 1))
        /\ (core.refcount = Count32(0) => core'.refcount \in {Count32(0), Count32(1)})
        /\ (last'.op = "core_register" => CoreValid(core'))]_vars

\* the part of C30 that the code keeps: the claim holds as long as the
\* count is the number of the outstanding registers, that is until a free
\* follows a gravity_core_init that no register followed
CoreSharedByCountWhileBalanced ==
    [][core.refcount = Count32(core.outstanding) =>
        /\ (CoreValid(core) => core'.made = core.made)
        /\ (core'.outstanding > 0 => CoreValid(core'))
        /\ ((last'.op = "core_free" /\ core.outstanding = 1) =>
               (~core'.inited /\ core'.env = "NULL"))
        /\ ((CoreValid(core) /\ ~CoreValid(core') /\ core.outstanding > 0) =>
               (last'.op = "core_free" /\ core.outstanding = 1))
        /\ ((core.refcount = Count32(0) /\ core.outstanding > 0) =>
               core'.refcount \in {Count32(0), Count32(1)})
        /\ (last'.op = "core_register" => CoreValid(core'))]_vars

(***************************************************************************)
(* Properties of the conversions                                           *)
(***************************************************************************)
\* the value converted in this step has no built-in rule for the target
NoBuiltinRule ==
    /\ last'.op = "convert"
    /\ last'.x.recv.kind \notin
          IF last'.x.key = "String"
            THEN {"Int", "Float", "Bool", "Null", "String", "Class", "Closure"}
            ELSE {"Int", "Float", "Bool", "Null", "String"}
\* the method found for the conversion is the default dispatcher or the
\* closure being executed
GuardedMethod ==
    \/ last'.x.pre = CASE last'.x.key = "Int" -> "convert_object_int"
                        [] last'.x.key = "Float" -> "convert_object_float"
                        [] last'.x.key = "Bool" -> "convert_object_bool"
                        [] OTHER -> "convert_object_string"
    \/ last'.x.pre = last'.x.cur

\* C14: a conversion to Int, Float, Bool or String of a value with no
\* built-in rule, whose conversion method is the default dispatcher or the
\* executing closure, fails with the error value and runs no closure.
ConversionGuardFails ==
    [][(NoBuiltinRule /\ GuardedMethod) =>
          /\ last'.res = "error"
          /\ last'.x.ret = ErrorValue
          /\ last'.x.clo = NoMember]_vars

\* the part of C14 that the code keeps: under the guard no closure is run
ConversionGuardRunsNothing ==
    [][(NoBuiltinRule /\ GuardedMethod) => last'.x.clo = NoMember]_vars

\* this step converts to `to` the result of the step before, which
\* converted a value of the kind `from` to `via`
ConvertedBack(from, via, to) ==
    /\ last.op = "convert" /\ last.res = "value"
    /\ last.x.recv.kind = from
    /\ last.x.key = via
    /\ last'.op = "convert"
    /\ last'.x.key = to
    /\ last'.x.recv = last.x.ret
\* a double holds the Int exactly: below 2^53, or even and below 2^54
Representable(v) ==
    /\ "w" \notin DOMAIN v
    /\ \/ v.hi < Pow21
       \/ v.hi < 2 * Pow21 /\ v.n % 2 = 0
\* the digits of a numeral, without its sign
DigitsOf(chars) == IF chars # <<>> /\ chars[1] = "-" THEN Tail(chars) ELSE chars
\* a decimal numeral: an optional '-', digits only, no leading zero, and no
\* '-' before the numeral 0
Canonical(chars) ==
    LET digits == DigitsOf(chars)
    IN /\ digits # <<>>
       /\ \A i \in 1..Len(digits) : IsDigit(digits[i])
       /\ (digits[1] = "0" => chars = <<"0">>)
\* digits a and b of the same length: a is at most b
RECURSIVE DigitsLeq(_, _)
DigitsLeq(a, b) ==
    IF a = <<>> THEN TRUE
    ELSE IF a[1] # b[1] THEN DigitValue(a[1]) < DigitValue(b[1])
    ELSE DigitsLeq(Tail(a), Tail(b))
\* the numeral denotes a number of -2^63 .. 2^63 - 1
InRange(chars) ==
    LET digits == DigitsOf(chars)
        limit == IF chars[1] = "-" THEN DecimalChars(INT64_MIN)
                 ELSE DecimalChars(INT64_MAX)
    IN \/ Len(digits) < Len(limit)
       \/ Len(digits) = Len(limit) /\ DigitsLeq(digits, limit)

\* C21: converting an Int to String and back to Int gives the Int;
\* converting an Int that a Float holds exactly to Float and back to Int
\* gives the Int; converting a canonical decimal numeral to Int and back to
\* String gives the numeral.
ConversionsRoundTrip ==
    [][/\ (ConvertedBack("Int", "String", "Int") => last'.x.ret = last.x.recv)
        /\ ((ConvertedBack("Int", "Float", "Int") /\ Representable(last.x.recv)) =>
              last'.x.ret = last.x.recv)
        /\ ((ConvertedBack("String", "Int", "String")
              /\ Canonical(Chars(last.x.recv.s))) =>
              last'.x.ret = last.x.recv)]_vars

\* the part of C21 that the code keeps: the round trips of the Ints, and of
\* the canonical numerals of the numbers of 64 bits
ConversionsRoundTripInRange ==
    [][/\ (ConvertedBack("Int", "String", "Int") => last'.x.ret = last.x.recv)
        /\ ((ConvertedBack("Int", "Float", "Int") /\ Representable(last.x.recv)) =>
              last'.x.ret = last.x.recv)
        /\ ((ConvertedBack("String", "Int", "String")
              /\ Canonical(Chars(last.x.recv.s))
              /\ InRange(Chars(last.x.recv.s))) =>
              last'.x.ret = last.x.recv)]_vars

(***************************************************************************)
(* Properties of the operators of Int                                      *)
(***************************************************************************)
\* an operator was called in this step with an Int in args[0] and a Float
\* in args[1]
IntWithFloat ==
    /\ last'.op \in {"arith", "cmp"}
    /\ Len(last'.x.win) = 2
    /\ last'.x.win[1].kind = "Int"
    /\ last'.x.win[2].kind = "Float"
\* what the Float operator `name` gives for the Floats v1 and v2
PromotedResult(name, v1, v2) ==
    IF name = "div" /\ v2 = FloatArg(0) THEN ErrorValue
    ELSE FloatResult(name, v1, v2)
PromotedCompare(v1, v2) ==
    IF SameN(v1, v2) THEN IntResult(0)
    ELSE IF GreaterN(v1, v2) THEN IntResult(1)
    ELSE IntResult(0 - 1)

\* C22: with an Int on the left and a Float on the right, add, sub, mul,
\* div, rem and cmp of Int give what the Float operator of the same name
\* gives for the Int converted to Float and the right operand as it is.
IntOperatorPromotesToFloat ==
    [][IntWithFloat =>
          LET v1 == int2double(last'.x.win[1])
              v2 == last'.x.win[2]
          IN IF last'.op = "cmp"
               THEN last'.res = "value" /\ last'.x.ret = PromotedCompare(v1, v2)
               ELSE IF PromotedResult(last'.x.key, v1, v2) = ErrorValue
                 THEN last'.res = "error"
                 ELSE /\ last'.res = "value"
                      /\ last'.x.ret = PromotedResult(last'.x.key, v1, v2)]_vars

\* the part of C22 that the code keeps: cmp of Int converts the Int
IntCmpPromotesToFloat ==
    [][(IntWithFloat /\ last'.op = "cmp") =>
          /\ last'.res = "value"
          /\ last'.x.ret = PromotedCompare(int2double(last'.x.win[1]), last'.x.win[2])]_vars

(***************************************************************************)
(* Properties of the compare operators                                     *)
(***************************************************************************)
\* a compare returned a value in this step
Compared == last'.op = "cmp" /\ last'.res = "value"

\* C15: a compare with an Undefined operand gives the equal result, 0, when
\* the other operand is Undefined too, and a result that is not 0 for every
\* other operand, in both orders of the operands.
UndefinedEqualsOnlyUndefined ==
    [][(Compared /\ (VALUE_ISA_UNDEFINED(last'.x.recv)
                        \/ VALUE_ISA_UNDEFINED(last'.x.k))) =>
          IF VALUE_ISA_UNDEFINED(last'.x.recv) /\ VALUE_ISA_UNDEFINED(last'.x.k)
            THEN last'.x.ret.n = 0
            ELSE last'.x.ret.n # 0]_vars

(***************************************************************************)
(* Properties of the not-found method                                      *)
(***************************************************************************)
\* a load or store of this step found no member for its string key
MemberNotFound ==
    /\ last'.op \in {"load", "store"}
    /\ last'.x.k.kind = "String"
    /\ gravity_class_lookup(classes', GetClass(classes', instance', last'.x.recv),
                            last'.x.key) = NoMember

\* C16: after any binds and unbinds a load or store whose string key
\* resolves to no member returns the not-found method found on the class
\* chain of the receiver, and that method is never missing; the not-found
\* method of Object raises an error that names the member and the class of
\* the receiver.
NotFoundNeverMissing ==
    [][/\ (MemberNotFound =>
              /\ last'.res = "closure"
              /\ last'.x.clo = gravity_class_lookup(classes',
                      GetClass(classes', instance', last'.x.recv), "notfound")
              /\ last'.x.clo # NoMember)
        /\ (last'.op = "notfound" =>
              /\ last'.res = "error"
              /\ last'.msg = "Unable to find " \o last'.x.k.s \o " into class "
                                \o GetClass(classes, instance, last'.x.recv).name)]_vars

\* the part of C16 that the code keeps: the not-found method is missing only
\* when it has been removed from the table of Object
NotFoundMissingOnlyAfterUnbindOfObject ==
    [][(MemberNotFound /\ last'.x.clo = NoMember) =>
          "notfound" \notin DOMAIN classes'[Cls("Object")].htable]_vars

(***************************************************************************)
(* Properties of the List class                                            *)
(***************************************************************************)
\* the list a native of this step was called on
Receiver == list[last'.x.recv.n]

\* C17: on a list of n items the iterator answers the cursor Null with 0,
\* a cursor i below n - 1 with i + 1 and the cursor n - 1 with false (false
\* at once when n = 0), so that feeding the cursors back visits 0 .. n-1 in
\* order and stops; iterNext answers the cursor i with item i; neither
\* changes a list.
IteratorVisitsEachIndexOnce ==
    [][/\ (last'.op \in {"iterate", "iternext"} => list' = list)
        /\ (last'.op = "iterate" =>
              LET n == Len(Receiver)
                  cursor == last'.x.k
              IN /\ n = 0 => (last'.res = "value" /\ last'.x.ret = BoolArg(FALSE))
                 /\ (n > 0 /\ cursor = NullArg) => last'.x.ret = IntArg(0)
                 /\ (n > 0 /\ cursor.kind = "Int" /\ cursor.hi = 0) =>
                       /\ last'.res = "value"
                       /\ cursor.n < n - 1 => last'.x.ret = IntArg(cursor.n + 1)
                       /\ cursor.n = n - 1 => last'.x.ret = BoolArg(FALSE))
        /\ ((last'.op = "iternext" /\ last'.x.k.n < Len(Receiver)) =>
              last'.x.ret = Receiver[last'.x.k.n + 1])]_vars

\* the iteration of a list of three items came to its end: the cursor 2 was
\* answered with false
IteratorVisitsEachIndexOnceSeen ==
    /\ last.op = "iterate"
    /\ Len(list) = 1
    /\ list[1] = <<IntArg(2), IntArg(1), IntArg(2)>>
    /\ last.x.k = IntArg(2)
    /\ last.x.ret = BoolArg(FALSE)

(***************************************************************************)
(* Properties of the Range class                                           *)
(***************************************************************************)
\* the calls are made with from, from + 1, ... in this order
Ascending(calls, from) ==
    \A k \in 1..Len(calls) :
        calls[k] = IF k = 1 THEN from ELSE Inc64(calls[k - 1])

\* C18: the loop of a range with from <= to calls the closure with from,
\* from + 1, ..., to in this order, each once, when no call fails; after
\* the first call that fails it makes no other call and returns failure.
LoopCallsFromTo ==
    [][(loop.active /\ LessEq64(loop.from, loop.to)) =>
          /\ Ascending(loop'.calls, loop.from)
          /\ \A k \in 1..Len(loop'.calls) : LessEq64(loop'.calls[k], loop.to)
          /\ (last'.op = "loop" /\ last'.res = "value") =>
                /\ loop'.calls # <<>>
                /\ loop'.calls[Len(loop'.calls)] = loop.to
          /\ (last'.op = "loop" /\ last'.res = "error") =>
                /\ ~loop'.active
                /\ vmstate' = "error"]_vars

\* the part of C18 that the code keeps: the claim holds for the ranges
\* whose loop counter does not reach the end of the 64 bits
LoopCallsFromToBelowMax ==
    [][(loop.active /\ LessEq64(loop.from, loop.to)
          /\ loop.to \notin {INT64_MAX, INT64_MIN}) =>
          /\ Ascending(loop'.calls, loop.from)
          /\ \A k \in 1..Len(loop'.calls) : LessEq64(loop'.calls[k], loop.to)
          /\ (last'.op = "loop" /\ last'.res = "value") =>
                /\ loop'.calls # <<>>
                /\ loop'.calls[Len(loop'.calls)] = loop.to
          /\ (last'.op = "loop" /\ last'.res = "error") =>
                /\ ~loop'.active
                /\ vmstate' = "error"]_vars

\* the loop of the range r has run to its end
LoopCompleted(l, r) ==
    /\ ~l.active
    /\ l.closure # ""
    /\ ~LoopTest(l)
    /\ r = RangeValue(l.from, l.to)
\* the iteration of the range r has run to its end
IterationCompleted(l, r) == l.iter.done /\ l.iter.range = r
\* the values the iteration took are the arguments of the calls of the loop
SameSequence(l) ==
    /\ Len(l.iter.seq) = Len(l.calls)
    /\ \A k \in 1..Len(l.calls) : Limbs(l.iter.seq[k]) = l.calls[k]

\* C26: for every range r, ascending, of a single element or descending,
\* the values of the iterator protocol (the iterator called with null and
\* then with each cursor until it answers false, next called with each
\* cursor) are the arguments the loop of r passes to its closure, in the
\* same order, and their number is r.count.
IterationEqualsLoop ==
    [][/\ ((/\ last'.op \in {"loop", "range_iterate"}
             /\ \E r \in IterRanges : LoopCompleted(loop', r) /\ IterationCompleted(loop', r))
              => SameSequence(loop'))
        /\ ((last'.op = "count" /\ LoopCompleted(loop, last'.x.recv))
              => last'.x.ret = FromLimbs(Int64(Len(loop.calls))))
        /\ ((last'.op = "count" /\ IterationCompleted(loop, last'.x.recv))
              => last'.x.ret = FromLimbs(Int64(Len(loop.iter.seq))))]_vars

\* the part of C26 that the code keeps: the claim holds for the ranges with
\* from <= to
IterationEqualsLoopAscending ==
    [][/\ ((/\ last'.op \in {"loop", "range_iterate"}
             /\ \E r \in IterRanges : /\ LessEq64(r.from, r.to)
                                      /\ LoopCompleted(loop', r)
                                      /\ IterationCompleted(loop', r))
              => SameSequence(loop'))
        /\ ((last'.op = "count" /\ LoopCompleted(loop, last'.x.recv))
              => last'.x.ret = FromLimbs(Int64(Len(loop.calls))))
        /\ ((/\ last'.op = "count"
             /\ LessEq64(last'.x.recv.from, last'.x.recv.to)
             /\ IterationCompleted(loop, last'.x.recv))
              => last'.x.ret = FromLimbs(Int64(Len(loop.iter.seq))))]_vars

\* the iteration and the loop of 0...2 both ran to their end with 0, 1, 2
IterationEqualsLoopSeen ==
    /\ last.op = "count"
    /\ last.x.recv = RangeValue(Int64(0), Int64(2))
    /\ last.x.ret = IntArg(3)
    /\ LoopCompleted(loop, last.x.recv)
    /\ IterationCompleted(loop, last.x.recv)
    /\ loop.iter.seq = <<IntArg(0), IntArg(1), IntArg(2)>>

(***************************************************************************)
(* Properties of the String class                                          *)
(***************************************************************************)
\* the characters of a string of well-formed UTF-8, from the byte at index
RECURSIVE Utf8Chars(_, _)
Utf8Chars(bytes, index) ==
    IF index >= Len(bytes) THEN <<>>
    ELSE LET n == utf8_charbytes(bytes, index)
         IN <<BytesValue(SubSeq(bytes, index + 1, index + n))>>
                \o Utf8Chars(bytes, index + n)
\* the byte offsets at which a character of the string begins
RECURSIVE CharStarts(_, _)
CharStarts(bytes, index) ==
    IF index >= Len(bytes) THEN {}
    ELSE {index} \cup CharStarts(bytes, index + utf8_charbytes(bytes, index))
\* this step belongs to an iteration that began with the cursor null
InIteration == loop'.iter.range # <<>> /\ loop'.iter.range = last'.x.recv

\* C27: for every string, with characters of several bytes or not, every
\* cursor the iterator returns is a byte offset below the byte length at
\* which a character begins; the iteration from null takes each character
\* once, in order, and ends with false after the last one, so that next
\* never reads at or behind the end of the string.
StringIterationVisitsEachCharacter ==
    [][/\ ((last'.op = "string_iterate" /\ InIteration /\ last'.x.ret.kind = "Int")
              => last'.x.ret.n \in CharStarts(last'.x.recv.bytes, 0))
        /\ ((last'.op = "string_next" /\ InIteration)
              => last'.x.k.n < Len(last'.x.recv.bytes))
        /\ ((last'.op = "string_iterate" /\ InIteration /\ loop'.iter.done)
              => loop'.iter.seq = Utf8Chars(last'.x.recv.bytes, 0))]_vars

\* the part of C27 that the code keeps: the claim holds for the strings
\* whose last character is a single byte
StringIterationSingleByteEnd ==
    [][(InIteration /\ \/ last'.x.recv.bytes = <<>>
                       \/ last'.x.recv.bytes[Len(last'.x.recv.bytes)] <= 127) =>
        /\ ((last'.op = "string_iterate" /\ last'.x.ret.kind = "Int")
              => last'.x.ret.n \in CharStarts(last'.x.recv.bytes, 0))
        /\ (last'.op = "string_next"
              => last'.x.k.n < Len(last'.x.recv.bytes))
        /\ ((last'.op = "string_iterate" /\ loop'.iter.done)
              => loop'.iter.seq = Utf8Chars(last'.x.recv.bytes, 0))]_vars

\* the numeric value of a number of the model, as its two limbs
IsNumber(v) == v.kind \in {"Int", "Float"}
NumberList(array) == \A k \in 1..Len(array) : IsNumber(array[k])
AscendingOrder(array) ==
    \A k \in 1..(Len(array) - 1) : ~GreaterN(array[k], array[k + 1])
\* b holds the items of a, each as often as a does
Permutation(a, b) ==
    /\ Len(a) = Len(b)
    /\ \A v \in {a[k] : k \in 1..Len(a)} :
          Cardinality({k \in 1..Len(a) : a[k] = v})
              = Cardinality({k \in 1..Len(b) : b[k] = v})
\* the default sort of a list of numbers in this step
DefaultSortOfNumbers ==
    /\ last'.op \in {"sort", "sorted"}
    /\ last'.x.nargs = 1
    /\ NumberList(Receiver)

\* C19: for a list of numbers sorted() returns a new list, an ascending
\* permutation of the receiver, and leaves the receiver as it was; sort()
\* turns the receiver into an ascending permutation of its items and
\* returns the receiver.
SortAscendingPermutation ==
    [][DefaultSortOfNumbers =>
          LET l == last'.x.recv.n
              r == last'.x.ret.n
          IN /\ AscendingOrder(list'[r])
             /\ Permutation(list[l], list'[r])
             /\ IF last'.op = "sorted"
                  THEN /\ r \notin 1..Len(list)
                       /\ list'[l] = list[l]
                  ELSE /\ r = l
                       /\ Len(list') = Len(list)]_vars

\* the part of C19 that the code keeps: the claim holds for the lists whose
\* numbers a double holds exactly
SortAscendingPermutationBelowPow53 ==
    [][(DefaultSortOfNumbers /\ \A k \in 1..Len(Receiver) : Receiver[k].hi < Pow21) =>
          LET l == last'.x.recv.n
              r == last'.x.ret.n
          IN /\ AscendingOrder(list'[r])
             /\ Permutation(list[l], list'[r])
             /\ IF last'.op = "sorted"
                  THEN /\ r \notin 1..Len(list)
                       /\ list'[l] = list[l]
                  ELSE /\ r = l
                       /\ Len(list') = Len(list)]_vars

(***************************************************************************)
(* Properties of the default accessors                                     *)
(***************************************************************************)
\* the load recorded in l returned the slot behind a default accessor
DefaultGetterLoad(l) ==
    /\ l.op = "load"
    /\ l.res = "value"
    /\ l.x.k.kind = "String"
    /\ LET obj == gravity_class_lookup(classes,
                      GetClass(classes, instance, l.x.recv), l.x.key)
       IN /\ obj # NoMember
          /\ FUNCTION_ISA_SPECIAL(Function(obj))
          /\ FUNCTION_ISA_DEFAULT_GETTER(Function(obj))

====
